---- MODULE Spec2Model ----
(***************************************************************************)
(* qpsphere: the phase-matching optimizer (imagefit/alg.py, match_phase)   *)
(* and the interpolator it drives (imagefit/interp.py,                     *)
(* SpherePhaseInterpolator).                                               *)
(*                                                                         *)
(* Numbers.  The code computes in floating point; the model computes the   *)
(* same expressions exactly, on integers, in units fine enough that every  *)
(* value the code can produce within the model's iteration bounds is an    *)
(* integer (a half-window is halved at most once per iteration, a sample   *)
(* of a 47-point search lies at a multiple of 1/23 of the half-window, a   *)
(* sample of the 13-point lateral grid at a multiple of 1/6 of dc):        *)
(*   refractive index : 1e-4 / Sc          (Sc  = 23 * 2^Halvings)         *)
(*   radius, lengths  : 1e-8 m / Sc                                        *)
(*   lateral offsets  : 1 px / LSc         (LSc = 6 * 2^Halvings)          *)
(* Ratios (nrel, rrel, crel, stop_dr) are kept as numerator/denominator.   *)
(* The forward model and the phase images are symbolic: an image is the    *)
(* record of the arguments the forward model was called with.  The target  *)
(* image is not modelled: the minimizer of each line search and the        *)
(* outcome of the background average are inputs (Probes).                  *)
(* verbose is 0: the plotting calls of verbose > 1 are not modelled.       *)
(***************************************************************************)
EXTENDS Integers, Sequences, FiniteSets, TLC

VARIABLES
    cfg,        \* the arguments of match_phase (fixed during a run)
    spi,        \* the SpherePhaseInterpolator object
    pc,         \* position in match_phase / "api" for direct use of spi
    ii,         \* iteration counter (alg.py:146)
    dc,         \* lateral search half-window [px] (alg.py:143)
    r_old,      \* alg.py:158
    n_old,      \* alg.py:159
    idr,        \* argmin of the radius search (alg.py:169)
    idn,        \* argmin of the index search (alg.py:180)
    deltax,     \* alg.py:194
    deltay,     \* alg.py:195
    recorder,   \* alg.py:133
    interim,    \* alg.py:136
    message,    \* alg.py:147
    warned,     \* number of warnings.warn calls (alg.py:278)
    res,        \* the returned list (alg.py:304-317)
    hist,       \* ghost: what each executed iteration found
    op,         \* ghost: the last direct call on spi and how it ended
    nops,       \* ghost: number of direct calls on spi
    other,      \* the locals of a second match_phase call, while suspended
    active,     \* which of two interleaved calls is executing (0: one call)
    an,         \* a call of analyze: its arguments, position and outcome
    cc,         \* a call of contour_canny: arguments, position and outcome
    bg,         \* a simulation and the background mask computed from it
    fs,         \* the binaries in the resources and the cache directory
    bh,         \* a call of simulate_sphere: position, attempts and outcome
    ry          \* a call of rytov_sc: arguments, position and outcome

vars == <<cfg, spi, pc, ii, dc, r_old, n_old, idr, idn, deltax, deltay,
          recorder, interim, message, warned, res, hist, op, nops,
          other, active, an, cc, bg, fs, bh, ry>>

\* what is no local of the executing match_phase call and no part of its
\* interpolator
outside == <<other, active, an, cc, bg, fs, bh, ry>>

runvars == <<cfg, pc, ii, dc, r_old, n_old, idr, idn, deltax, deltay,
             recorder, interim, message, warned, res, hist>>

-----------------------------------------------------------------------------
(* Bounds of the model *)

\* min_iter is drawn from 1..MinIterBound
MinIterBound == 3
\* max_iter is drawn from 1..MaxIterBound
MaxIterBound == 3
\* number of direct calls on the interpolator in SpecAPI
MaxOps == 4

Max(a, b) == IF a >= b THEN a ELSE b
Abs(a) == IF a < 0 THEN -a ELSE a

\* The guard of VaryRadius lets iterations 1..IterCap start, so that the
\* state space stays finite whatever the stopping rule does. A run that
\* wants a further iteration stays in the loop for ever (see C2).
IterCap == Max(MinIterBound, MaxIterBound + 1)

\* number of halvings the units resolve
Halvings == Max(IterCap, MaxOps)

RECURSIVE Pow2(_)
Pow2(k) == IF k = 0 THEN 1 ELSE 2 * Pow2(k - 1)

Sc == 23 * Pow2(Halvings)
LSc == 6 * Pow2(Halvings)

-----------------------------------------------------------------------------
(* Program constants: the defaults of match_phase *)

range_ipol == 47
range_off == 13
\* nrel = .10
NrelNum == 1
NrelDen == 10
\* rrel = .05
RrelNum == 1
RrelDen == 20
\* crel = .05
CrelNum == 1
CrelDen == 20
\* stop_dr = .0010
StopDrNum == 1
StopDrDen == 1000
\* stop_dn = .0005 (in 1e-4)
StopDnE4 == 5
\* stop_dc = 1 px
StopDcPx == 1

-----------------------------------------------------------------------------
(* The inputs of the modelled runs *)

\* qpi["medium index"] = 1.3330, n0 = 1.3390
medium_index == 13330 * Sc
n0 == 13390 * Sc
\* r0 = 4.00e-6 m
r0 == 400 * Sc
\* qpi["wavelength"] = 500e-9 m, qpi["pixel size"] = 250e-9 m
wavelength == 50 * Sc
pixel_size == 25 * Sc
\* c0 = (12.5, 12.5) px
c0 == <<(25 * LSc) \div 2, (25 * LSc) \div 2>>
\* the initial pha_offset (arbitrary unit); a fitted offset is one more
pha_offset0 == 1

\* What one iteration's three searches and its background average find:
\* idr, idn index the 47 samples, idc the flattened 13 x 13 grid; nan says
\* that no border pixel qualified as background (np.nanmean gave nan),
\* otherwise phai is the mean.
Probes ==
    { [idr |-> 23, idn |-> 23, idc |-> 84, nan |-> TRUE,  phai |-> 0],
      [idr |-> 23, idn |-> 18, idc |-> 85, nan |-> FALSE,
       phai |-> -(pha_offset0 + 1)],
      [idr |-> 23, idn |-> 23, idc |-> 12, nan |-> FALSE,
       phai |-> -(pha_offset0 + 1)],
      [idr |-> 46, idn |-> 28, idc |-> 90, nan |-> TRUE,  phai |-> 0] }

Configs ==
    [ min_iter : 1..MinIterBound,
      max_iter : 1..MaxIterBound,
      stop_dc : {0, StopDcPx * LSc},
      stop_dn : {0, StopDnE4 * Sc},
      fix_pha_offset : BOOLEAN,
      ret_qpi : {TRUE} ]

-----------------------------------------------------------------------------
(* SpherePhaseInterpolator *)

Slots == (0..2) \X (0..2)

\* models.model_dict[model](**kwargs).pha: the forward model is a pure function
\* of (sphere_index, radius, center); the other keyword arguments are fixed.
sphere_method(n, r, cx, cy) == [n |-> n, r |-> r, center |-> <<cx, cy>>]

NoImage == [n |-> 0, r |-> 0, center |-> <<0, 0>>]

\* SpherePhaseInterpolator.__init__
NewSPI(model_kwargs, pha_offset) ==
    [ radius |-> model_kwargs.radius,
      sphere_index |-> model_kwargs.sphere_index,
      pha_offset |-> pha_offset,
      posx_offset |-> model_kwargs.center[1],
      posy_offset |-> model_kwargs.center[2],
      dn |-> (Abs(model_kwargs.sphere_index - model_kwargs.medium_index) * NrelNum)
                \div NrelDen,
      dr |-> (model_kwargs.radius * RrelNum) \div RrelDen,
      n_border |-> [k \in Slots |-> 0],
      r_border |-> [k \in Slots |-> 0],
      border_pha |-> <<>>,
      \* ghost: number of forward-model evaluations
      ncalls |-> 0,
      \* ghost: number of images get_phase has returned
      nphase |-> 0 ]

\* SpherePhaseInterpolator.params
params(s) ==
    [ radius |-> s.radius,
      sphere_index |-> s.sphere_index,
      pha_offset |-> s.pha_offset,
      center |-> <<s.posx_offset, s.posy_offset>> ]

range_n(s) == <<s.sphere_index - s.dn, s.sphere_index + s.dn>>
\* range_r reaching twice the half-window to either side
range_r_wide(s) == <<s.radius - 2 * s.dr, s.radius + 2 * s.dr>>
range_r(s) == <<s.radius - s.dr, s.radius + s.dr>>

\* Operands are passed as operator arguments rather than bound by LET
\* wherever a value is used more than once: TLC evaluates an argument once.

\* interp.py:151-167, the slot is computed: the forward model is called with the
\* current center and the image is stored under the key (n, r)
border_compute(s, k, n, r, pha) ==
    [spi |-> [s EXCEPT !.border_pha = (k :> pha) @@ @,
                       !.n_border[k] = n,
                       !.r_border[k] = r,
                       !.ncalls = @ + 1],
     pha |-> pha, err |-> "none"]

\* border_lookup taking an entry for valid when its index alone matches
border_lookup_index_only(s, k, n, r) ==
    IF s.n_border[k] = n /\ k \in DOMAIN s.border_pha
    THEN [spi |-> s, pha |-> s.border_pha[k], err |-> "none"]
    ELSE border_compute(s, k, n, r,
                        sphere_method(n, r, s.posx_offset, s.posy_offset))

\* border_lookup without the cache: every access evaluates the forward model
border_lookup_uncached(s, k, n, r) ==
    border_compute(s, k, n, r,
                   sphere_method(n, r, s.posx_offset, s.posy_offset))

\* interp.py:145-167, slot k (array indices) for the pair (n, r); a dictionary
\* lookup of a key that was never stored raises KeyError
border_lookup(s, k, n, r) ==
    IF s.n_border[k] = n /\ s.r_border[k] = r
    THEN IF k \in DOMAIN s.border_pha
         THEN [spi |-> s, pha |-> s.border_pha[k], err |-> "none"]
         ELSE [spi |-> s, pha |-> NoImage, err |-> "KeyError"]
    ELSE border_compute(s, k, n, r,
                        sphere_method(n, r, s.posx_offset, s.posy_offset))

\* SpherePhaseInterpolator.get_border_phase; the result is the object after the
\* call, the returned image and the exception raised ("none" if none)
get_border_phase(s, i_n, i_r) ==
    IF i_n \notin {-1, 0, 1} \/ i_r \notin {-1, 0, 1}
    THEN [spi |-> s, pha |-> NoImage, err |-> "AssertionError"]
    ELSE border_lookup(s, <<i_n + 1, i_r + 1>>,
                       s.sphere_index + s.dn * i_n, s.radius + s.dr * i_r)

\* An optional argument: <<>> is None, <<v>> is the value v
None == <<>>
Some(v) == <<v>>

\* interp.py:228-251: the returned image, as the formula
\* left + (righ - left) * dist / dmax, shifted, plus pha_offset
interpolated(s, left, righ, dist, dmax, dx, dy) ==
    IF righ.err # "none" THEN [spi |-> righ.spi, pha |-> <<>>, err |-> righ.err]
    ELSE [spi |-> [righ.spi EXCEPT !.nphase = @ + 1],
          pha |-> [left |-> left.pha, righ |-> righ.pha,
                   dist |-> Abs(dist), dmax |-> dmax,
                   shift |-> <<dx, dy>>, pha_offset |-> s.pha_offset],
          err |-> "none"]

\* get_phase_side taking the upper border image whatever the side of the query
get_phase_side_upper(s, left, nintp, rintp, dx, dy) ==
    IF left.err # "none" THEN [spi |-> left.spi, pha |-> <<>>, err |-> left.err]
    ELSE IF rintp = s.radius
    THEN interpolated(s, left, get_border_phase(left.spi, 1, 0),
                      nintp - s.sphere_index, s.dn, dx, dy)
    ELSE interpolated(s, left, get_border_phase(left.spi, 0, 1),
                      rintp - s.radius, s.dr, dx, dy)

\* interp.py:213-226: the second border image, on the side of the query
get_phase_side(s, left, nintp, rintp, dx, dy) ==
    IF left.err # "none" THEN [spi |-> left.spi, pha |-> <<>>, err |-> left.err]
    ELSE IF rintp = s.radius
    THEN interpolated(s, left,
             get_border_phase(left.spi,
                 IF nintp - s.sphere_index < 0 THEN -1 ELSE 1, 0),
             nintp - s.sphere_index, s.dn, dx, dy)
    ELSE interpolated(s, left,
             get_border_phase(left.spi, 0,
                 IF rintp - s.radius < 0 THEN -1 ELSE 1),
             rintp - s.radius, s.dr, dx, dy)

\* get_phase_at fetching the center border image ahead of the assertions
get_phase_at_late_assert(s, nintp, rintp, dx, dy) ==
    IF \/ ~(rintp = s.radius \/ nintp = s.sphere_index)
       \/ ~(rintp >= s.radius - s.dr)
       \/ ~(rintp <= s.radius + s.dr)
       \/ ~(nintp >= s.sphere_index - s.dn)
       \/ ~(nintp <= s.sphere_index + s.dn)
    THEN [spi |-> get_border_phase(s, 0, 0).spi, pha |-> <<>>,
          err |-> "AssertionError"]
    ELSE get_phase_side(s, get_border_phase(s, 0, 0), nintp, rintp, dx, dy)

\* interp.py:203-212: the assertions, then the center border image
get_phase_at(s, nintp, rintp, dx, dy) ==
    IF \/ ~(rintp = s.radius \/ nintp = s.sphere_index)
       \/ ~(rintp >= s.radius - s.dr)
       \/ ~(rintp <= s.radius + s.dr)
       \/ ~(nintp >= s.sphere_index - s.dn)
       \/ ~(nintp <= s.sphere_index + s.dn)
    THEN [spi |-> s, pha |-> <<>>, err |-> "AssertionError"]
    ELSE get_phase_side(s, get_border_phase(s, 0, 0), nintp, rintp, dx, dy)

\* SpherePhaseInterpolator.get_phase; the result as for get_border_phase
get_phase(s, nintp_opt, rintp_opt, delta_offset_x, delta_offset_y) ==
    get_phase_at(s,
                 IF nintp_opt = None THEN s.sphere_index ELSE nintp_opt[1],
                 IF rintp_opt = None THEN s.radius ELSE rintp_opt[1],
                 delta_offset_x, delta_offset_y)

\* SpherePhaseInterpolator.compute_qpi: one forward-model evaluation at the
\* current parameters, no use of the border cache
compute_qpi(s) ==
    [spi |-> [s EXCEPT !.ncalls = @ + 1],
     qpi |-> [pha |-> sphere_method(s.sphere_index, s.radius,
                                    s.posx_offset, s.posy_offset),
              bg |-> -s.pha_offset]]

-----------------------------------------------------------------------------
(* match_phase *)

\* np.linspace(start, stop, num, endpoint=True), as a function on 0..num-1
linspace(start, stop, num) ==
    [i \in 0..(num - 1) |-> start + (i * (stop - start)) \div (num - 1)]

\* The loops "for ri in rs: phasei = spi.get_phase(...)" over the queries
\* qs[lo..hi] (each <<nintp, rintp, dx, dy>>), probed in order; acc is the result
\* of the last get_phase call before qs[lo]. After an exception nothing more is
\* probed. The range is split in two to keep the evaluation shallow.
RECURSIVE probe_range(_, _, _, _)
probe_range(acc, qs, lo, hi) ==
    IF acc.err # "none" \/ lo > hi THEN acc
    ELSE IF lo = hi
    THEN get_phase(acc.spi, qs[lo][1], qs[lo][2], qs[lo][3], qs[lo][4])
    ELSE probe_range(probe_range(acc, qs, lo, (lo + hi) \div 2),
                     qs, (lo + hi) \div 2 + 1, hi)

probe_all(s, qs) ==
    probe_range([spi |-> s, pha |-> <<>>, err |-> "none"], qs, 1, Len(qs))

\* recorder.count(x)
RECURSIVE count(_, _)
count(seq, x) ==
    IF seq = <<>> THEN 0
    ELSE (IF Head(seq) = x THEN 1 ELSE 0) + count(Tail(seq), x)

\* idx > range_ipol / 2 - range_ipol / 10 and idx < range_ipol / 2 + range_ipol / 10
in_central_window(idx) ==
    /\ 10 * idx > 5 * range_ipol - range_ipol
    /\ 10 * idx < 5 * range_ipol + range_ipol

\* abs(spi.radius - r_old) / spi.radius < stop_dr, as floating point decides it:
\* a division by zero gives inf or nan, which is not below anything
rel_radius_below(r, ro) ==
    IF r > 0 THEN Abs(r - ro) * StopDrDen < StopDrNum * r
    ELSE IF r = 0 THEN FALSE
    ELSE Abs(r - ro) * StopDrDen > StopDrNum * r

model_kwargs(c) ==
    [radius |-> r0, sphere_index |-> n0, medium_index |-> medium_index,
     center |-> c]

\* the locals of match_phase and its interpolator, as one value
run_state ==
    [cfg |-> cfg, spi |-> spi, pc |-> pc, ii |-> ii, dc |-> dc,
     r_old |-> r_old, n_old |-> n_old, idr |-> idr, idn |-> idn,
     deltax |-> deltax, deltay |-> deltay, recorder |-> recorder,
     interim |-> interim, message |-> message, warned |-> warned,
     res |-> res, hist |-> hist]

\* alg.py:113-147: the locals of a call with the arguments c when it
\* reaches position; names that are not bound yet hold 0
new_run(c, position) ==
    [cfg |-> c,
     spi |-> NewSPI(model_kwargs(c0), pha_offset0),
     pc |-> position,
     ii |-> 0,
     dc |-> (Max(wavelength, (CrelNum * r0) \div CrelDen) * LSc)
                \div pixel_size,
     r_old |-> 0, n_old |-> 0, idr |-> 0, idn |-> 0,
     deltax |-> 0, deltay |-> 0,
     recorder |-> <<>>,
     interim |-> <<  <<0, params(NewSPI(model_kwargs(c0), pha_offset0))>>  >>,
     message |-> "None",
     warned |-> 0,
     res |-> <<>>,
     hist |-> <<>>]

\* the executing call is in the state s
Started(s) ==
    /\ cfg = s.cfg
    /\ spi = s.spi
    /\ pc = s.pc
    /\ ii = s.ii
    /\ dc = s.dc
    /\ r_old = s.r_old
    /\ n_old = s.n_old
    /\ idr = s.idr
    /\ idn = s.idn
    /\ deltax = s.deltax
    /\ deltay = s.deltay
    /\ recorder = s.recorder
    /\ interim = s.interim
    /\ message = s.message
    /\ warned = s.warned
    /\ res = s.res
    /\ hist = s.hist

InitRun(c, position) ==
    /\ Started(new_run(c, position))
    /\ op = [name |-> "__init__", a |-> None, b |-> None, err |-> "none",
               ret |-> <<>>]
    /\ nops = 0
    /\ other = <<>>
    /\ active = 0
    /\ an = <<>>
    /\ cc = <<>>
    /\ bg = <<>>
    /\ fs = <<>>
    /\ bh = <<>>
    /\ ry = <<>>

Init == \E c \in Configs : InitRun(c, "radius")

\* alg.py:165-170: the radius search over the samples rs; after is the
\* interpolator after the 47 probes
RadiusSearch(rs, after) ==
    /\ ii' = ii + 1
    /\ r_old' = spi.radius
    /\ n_old' = spi.sphere_index
    /\ IF (\A i \in DOMAIN rs : rs[i] # spi.radius) \/ after.err # "none"
       THEN /\ pc' = "raised"
            /\ spi' = after.spi
            /\ idr' = idr
       ELSE /\ pc' = "index"
            /\ \E p \in Probes : idr' = p.idr
            /\ spi' = [after.spi EXCEPT !.radius = rs[idr']]
    /\ UNCHANGED <<cfg, dc, idn, deltax, deltay, recorder, interim, message,
                   warned, res, hist, op, nops, outside>>

radius_queries(rs) == [i \in 1..range_ipol |-> <<None, Some(rs[i - 1]), 0, 0>>]

RadiusSamples(rs) == RadiusSearch(rs, probe_all(spi, radius_queries(rs)))

\* alg.py:155-170, the 1st step of an iteration
VaryRadius ==
    /\ pc = "radius"
    /\ ii < IterCap
    /\ RadiusSamples(linspace(range_r(spi)[1], range_r(spi)[2], range_ipol))

\* alg.py:176-181: the index search over the samples ns
IndexSearch(ns, after) ==
    /\ IF (\A i \in DOMAIN ns : ns[i] # spi.sphere_index) \/ after.err # "none"
       THEN /\ pc' = "raised"
            /\ spi' = after.spi
            /\ idn' = idn
       ELSE /\ pc' = "center"
            /\ \E p \in Probes : p.idr = idr /\ idn' = p.idn
            /\ spi' = [after.spi EXCEPT !.sphere_index = ns[idn']]
    /\ UNCHANGED <<cfg, ii, dc, r_old, n_old, idr, deltax, deltay, recorder,
                   interim, message, warned, res, hist, op, nops, outside>>

index_queries(ns) == [i \in 1..range_ipol |-> <<Some(ns[i - 1]), None, 0, 0>>]

IndexSamples(ns) == IndexSearch(ns, probe_all(spi, index_queries(ns)))

\* alg.py:172-181, the 2nd step
VaryIndex ==
    /\ pc = "index"
    /\ IndexSamples(linspace(range_n(spi)[1], range_n(spi)[2], range_ipol))

\* xintp.flatten(), yintp.flatten() of np.meshgrid(x, x), indexed from 0
xflat(x) == [k \in 0..(range_off * range_off - 1) |-> x[k % range_off]]
yflat(x) == [k \in 0..(range_off * range_off - 1) |-> x[k \div range_off]]

\* move_center replacing the center instead of moving it
move_center_overwrite(s, dx, dy) ==
    [s EXCEPT !.posx_offset = c0[1] - dx, !.posy_offset = c0[2] - dy]

\* alg.py:197-200: the found offset is subtracted from the running center
move_center(s, dx, dy) ==
    [s EXCEPT !.posx_offset = @ - dx, !.posy_offset = @ - dy]

\* alg.py:187-200: the lateral search over the grid x by x
CenterSearch(x, after) ==
    /\ IF (\A i \in DOMAIN x : x[i] # 0) \/ after.err # "none"
       THEN /\ pc' = "raised"
            /\ spi' = after.spi
            /\ UNCHANGED <<deltax, deltay>>
       ELSE /\ pc' = "offset"
            /\ \E p \in Probes :
                 /\ p.idr = idr
                 /\ p.idn = idn
                 /\ deltax' = xflat(x)[p.idc]
                 /\ deltay' = yflat(x)[p.idc]
            /\ spi' = move_center(after.spi, deltax', deltay')
    /\ UNCHANGED <<cfg, ii, dc, r_old, n_old, idr, idn, recorder, interim,
                   message, warned, res, hist, op, nops, outside>>

center_queries(x) ==
    [k \in 1..(range_off * range_off) |->
        <<None, None, x[(k - 1) % range_off], x[(k - 1) \div range_off]>>]

CenterSamples(x) == CenterSearch(x, probe_all(spi, center_queries(x)))

\* alg.py:183-200, the 3rd step
VaryCenter ==
    /\ pc = "center"
    /\ CenterSamples(linspace(-dc, dc, range_off))

\* The probes that agree with what this iteration has found so far
ProbesFound(x) ==
    {p \in Probes :
        /\ p.idr = idr
        /\ p.idn = idn
        /\ deltax = x[p.idc % range_off]
        /\ deltay = x[p.idc \div range_off]}

\* the interim record is written before the offset is refitted
OffsetFit_record_first(g) ==
    IF g.err # "none"
    THEN /\ pc' = "raised"
         /\ spi' = g.spi
         /\ interim' = interim
    ELSE /\ pc' = "check"
         /\ \E p \in ProbesFound(linspace(-dc, dc, range_off)) :
              spi' = [g.spi EXCEPT
                        !.pha_offset = -(IF p.nan THEN 0 ELSE p.phai)]
         /\ interim' = Append(interim, <<ii, params(g.spi)>>)

\* OffsetFit keeping the previous offset when the background mean is nan
OffsetFit_keep(g) ==
    IF g.err # "none"
    THEN /\ pc' = "raised"
         /\ spi' = g.spi
         /\ interim' = interim
    ELSE /\ pc' = "check"
         /\ \E p \in ProbesFound(linspace(-dc, dc, range_off)) :
              spi' = [g.spi EXCEPT
                        !.pha_offset = IF p.nan THEN @ ELSE -p.phai]
         /\ interim' = Append(interim, <<ii, params(spi')>>)

\* alg.py:204-214: the offset is refitted from the image g = spi.get_phase()
OffsetFit(g) ==
    IF g.err # "none"
    THEN /\ pc' = "raised"
         /\ spi' = g.spi
         /\ interim' = interim
    ELSE /\ pc' = "check"
         /\ \E p \in ProbesFound(linspace(-dc, dc, range_off)) :
              spi' = [g.spi EXCEPT
                        !.pha_offset = -(IF p.nan THEN 0 ELSE p.phai)]
         /\ interim' = Append(interim, <<ii, params(spi')>>)

\* the offset is refitted whatever fix_pha_offset says
FitPhaseOffset_always ==
    /\ pc = "offset"
    /\ OffsetFit(get_phase(spi, None, None, 0, 0))
    /\ UNCHANGED <<cfg, ii, dc, r_old, n_old, idr, idn, deltax, deltay,
                   recorder, message, warned, res, hist, op, nops, outside>>

\* alg.py:202-223, the background phase offset and the interim record
FitPhaseOffset ==
    /\ pc = "offset"
    /\ IF cfg.fix_pha_offset
       THEN /\ spi' = spi
            /\ pc' = "check"
            /\ interim' = Append(interim, <<ii, params(spi)>>)
       ELSE OffsetFit(get_phase(spi, None, None, 0, 0))
    /\ UNCHANGED <<cfg, ii, dc, r_old, n_old, idr, idn, deltax, deltay,
                   recorder, message, warned, res, hist, op, nops, outside>>

\* update_accuracies widening a range whose minimizer lies off-center
update_accuracies_widening(s) ==
    [s EXCEPT !.dn = IF in_central_window(idn) THEN @ \div 2 ELSE 2 * @,
              !.dr = IF in_central_window(idr) THEN @ \div 2 ELSE 2 * @]

\* alg.py:225-235: spi.dn /= 2, spi.dr /= 2 when the minimizer was central
update_accuracies(s) ==
    [s EXCEPT !.dn = IF in_central_window(idn) THEN @ \div 2 ELSE @,
              !.dr = IF in_central_window(idr) THEN @ \div 2 ELSE @]

\* alg.py:236-237
update_dc == IF deltax * deltax + deltay * deltay < dc * dc THEN dc \div 2 ELSE dc

\* alg.py:253-256: "if stop_dc:" and curoff = sqrt(deltax**2 + deltay**2) > stop_dc
center_moved ==
    /\ cfg.stop_dc # 0
    /\ \/ cfg.stop_dc < 0
       \/ deltax * deltax + deltay * deltay > cfg.stop_dc * cfg.stop_dc

\* alg.py:262-263
converged ==
    /\ rel_radius_below(spi.radius, r_old)
    /\ Abs(spi.sphere_index - n_old) < cfg.stop_dn

\* alg.py:271
thisresult == <<spi.sphere_index, spi.radius>>

\* stuck with a limit of two occurrences
stuck_twice(rec, x) == count(rec, x) > 1

\* alg.py:273: recorder.count(thisresult) > 2
stuck(rec, x) == count(rec, x) > 2

\* outcome without the iteration limit of alg.py:245
outcome_no_limit ==
    IF ii < cfg.min_iter THEN "min_iter"
    ELSE IF center_moved THEN "moved"
    ELSE IF converged THEN "converged"
    ELSE IF stuck(Append(recorder, thisresult), thisresult) THEN "stalled"
    ELSE "continue"

\* outcome with the convergence test ahead of the lateral test
outcome_converged_first ==
    IF ii < cfg.min_iter THEN "min_iter"
    ELSE IF ii > cfg.max_iter THEN "max_iter"
    ELSE IF converged THEN "converged"
    ELSE IF center_moved THEN "moved"
    ELSE IF stuck(Append(recorder, thisresult), thisresult) THEN "stalled"
    ELSE "continue"

\* outcome with the iteration limit tested ahead of min_iter
outcome_limit_first ==
    IF ii > cfg.max_iter THEN "max_iter"
    ELSE IF ii < cfg.min_iter THEN "min_iter"
    ELSE IF center_moved THEN "moved"
    ELSE IF converged THEN "converged"
    ELSE IF stuck(Append(recorder, thisresult), thisresult) THEN "stalled"
    ELSE "continue"

\* alg.py:241-282: which branch ends the iteration
outcome ==
    IF ii < cfg.min_iter THEN "min_iter"
    ELSE IF ii > cfg.max_iter THEN "max_iter"
    ELSE IF center_moved THEN "moved"
    ELSE IF converged THEN "converged"
    ELSE IF stuck(Append(recorder, thisresult), thisresult) THEN "stalled"
    ELSE "continue"

\* ghost: the record of one executed iteration
found(o) ==
    [result |-> thisresult, r_old |-> r_old, n_old |-> n_old,
     deltax |-> deltax, deltay |-> deltay, ii |-> ii, outcome |-> o,
     ncalls |-> spi.ncalls, nphase |-> spi.nphase]

\* What every branch shares: the accuracy update of alg.py:225-239
Update(o) ==
    /\ pc = "check"
    /\ outcome = o
    /\ spi' = update_accuracies(spi)
    /\ dc' = update_dc
    /\ hist' = Append(hist, found(o))
    /\ UNCHANGED <<cfg, r_old, n_old, idr, idn, deltax, deltay, interim, res,
                   op, nops, outside>>

\* alg.py:241-244
KeepMinIter ==
    /\ Update("min_iter")
    /\ pc' = "radius"
    /\ UNCHANGED <<ii, recorder, message, warned>>

\* StopMaxIter emitting a warning as the stall ending does
StopMaxIter_warning ==
    /\ Update("max_iter")
    /\ ii' = ii * (-1)
    /\ warned' = warned + 1
    /\ message' = "fail, reached maximum number of iterations"
    /\ pc' = "return"
    /\ UNCHANGED recorder

\* alg.py:245-251
StopMaxIter ==
    /\ Update("max_iter")
    /\ ii' = ii * (-1)
    /\ message' = "fail, reached maximum number of iterations"
    /\ pc' = "return"
    /\ UNCHANGED <<recorder, warned>>

\* alg.py:253-260
KeepCenterMoved ==
    /\ Update("moved")
    /\ pc' = "radius"
    /\ UNCHANGED <<ii, recorder, message, warned>>

\* alg.py:262-269
StopConverged ==
    /\ Update("converged")
    /\ message' = "success, satisfied stopping criteria"
    /\ pc' = "return"
    /\ UNCHANGED <<ii, recorder, warned>>

\* StopStalled without the sign change of alg.py:274
StopStalled_unsigned ==
    /\ Update("stalled")
    /\ recorder' = Append(recorder, thisresult)
    /\ warned' = warned + 1
    /\ message' = "fail, same parameters encountered twice"
    /\ pc' = "return"
    /\ UNCHANGED ii

\* alg.py:271-282
StopStalled ==
    /\ Update("stalled")
    /\ recorder' = Append(recorder, thisresult)
    /\ ii' = ii * (-1)
    /\ warned' = warned + 1
    /\ message' = "fail, same parameters encountered twice"
    /\ pc' = "return"

\* alg.py:271-273, 284-292: recorded, no stop
KeepNoConvergence ==
    /\ Update("continue")
    /\ recorder' = Append(recorder, thisresult)
    /\ pc' = "radius"
    /\ UNCHANGED <<ii, message, warned>>

\* alg.py:304-317 with every ret_* flag set but ret_qpi, which is cfg.ret_qpi
Return ==
    /\ pc = "return"
    /\ LET q == compute_qpi(spi)
       IN  /\ spi' = IF cfg.ret_qpi THEN q.spi ELSE spi
           /\ res' = [sphere_index |-> spi.sphere_index,
                      radius |-> spi.radius,
                      center |-> <<spi.posx_offset, spi.posy_offset>>,
                      pha_offset |-> spi.pha_offset,
                      qpi |-> IF cfg.ret_qpi THEN <<q.qpi>> ELSE <<>>,
                      num_iter |-> ii,
                      interim |-> interim]
    /\ pc' = "done"
    /\ UNCHANGED <<cfg, ii, dc, r_old, n_old, idr, idn, deltax, deltay,
                   recorder, interim, message, warned, hist, op, nops, outside>>

-----------------------------------------------------------------------------
(* Direct use of a SpherePhaseInterpolator: a client calls its methods and  *)
(* sets its attributes, in any order, as match_phase does in alg.py:167-233 *)

Call(name, a, b, err, ret) ==
    /\ pc = "api"
    /\ nops < MaxOps
    /\ nops' = nops + 1
    /\ op' = [name |-> name, a |-> a, b |-> b, err |-> err, ret |-> ret]
    /\ UNCHANGED <<runvars, outside>>

\* The queries a client makes, relative to the current parameters: inside the
\* ranges, on their borders, one unit outside, and off both axes at once
ApiQueries(s) ==
    { <<None, None>>,
      <<Some(s.sphere_index - s.dn), None>>,
      <<Some(s.sphere_index + s.dn + 1), None>>,
      <<None, Some(s.radius + s.dr)>>,
      <<None, Some(s.radius - s.dr - 1)>>,
      <<Some(s.sphere_index), Some(s.radius - s.dr \div 2)>>,
      <<Some(s.sphere_index + s.dn), Some(s.radius - s.dr)>> }

ApiGetPhaseDone(q, g) ==
    /\ Call("get_phase", q[1], q[2], g.err, g.pha)
    /\ spi' = g.spi

\* spi.get_phase(nintp, rintp)
ApiGetPhase ==
    \E q \in ApiQueries(spi) : ApiGetPhaseDone(q, get_phase(spi, q[1], q[2], 0, 0))

ApiGetBorderPhaseDone(i_n, i_r, g) ==
    /\ Call("get_border_phase", Some(i_n), Some(i_r), g.err, g.pha)
    /\ spi' = g.spi

\* spi.get_border_phase(idn, idr)
ApiGetBorderPhase ==
    \E i_n \in {-1, 0, 1}, i_r \in {-1, 0, 1} :
        ApiGetBorderPhaseDone(i_n, i_r, get_border_phase(spi, i_n, i_r))

\* spi.compute_qpi()
ApiComputeQpi ==
    /\ Call("compute_qpi", None, None, "none", compute_qpi(spi).qpi)
    /\ spi' = compute_qpi(spi).spi

\* spi.radius = v (alg.py:170)
ApiSetRadius ==
    \E v \in {r0, r0 + (r0 * RrelNum) \div RrelDen} :
        /\ Call("set_radius", Some(v), None, "none", <<>>)
        /\ spi' = [spi EXCEPT !.radius = v]

\* spi.sphere_index = v (alg.py:181)
ApiSetIndex ==
    \E v \in {n0, n0 - (Abs(n0 - medium_index) * NrelNum) \div NrelDen} :
        /\ Call("set_sphere_index", Some(v), None, "none", <<>>)
        /\ spi' = [spi EXCEPT !.sphere_index = v]

\* spi.posx_offset = spi.posx_offset - deltax (alg.py:199)
ApiMoveCenter ==
    \E d \in {LSc} :
        /\ Call("move_center", Some(d), None, "none", <<>>)
        /\ spi' = [spi EXCEPT !.posx_offset = @ - d]

\* spi.dn /= 2 (alg.py:228)
ApiHalveDn ==
    /\ Call("halve_dn", None, None, "none", <<>>)
    /\ spi' = [spi EXCEPT !.dn = @ \div 2]

\* spi.dr /= 2 (alg.py:233)
ApiHalveDr ==
    /\ Call("halve_dr", None, None, "none", <<>>)
    /\ spi' = [spi EXCEPT !.dr = @ \div 2]

InitAPI ==
    InitRun([min_iter |-> 1, max_iter |-> 1, stop_dc |-> StopDcPx * LSc,
             stop_dn |-> StopDnE4 * Sc, fix_pha_offset |-> FALSE,
             ret_qpi |-> TRUE], "api")

NextAPI ==
    \/ ApiGetPhase
    \/ ApiGetBorderPhase
    \/ ApiComputeQpi
    \/ ApiSetRadius
    \/ ApiSetIndex
    \/ ApiMoveCenter
    \/ ApiHalveDn
    \/ ApiHalveDr

SpecAPI == InitAPI /\ [][NextAPI]_vars

-----------------------------------------------------------------------------
Next ==
    \/ VaryRadius
    \/ VaryIndex
    \/ VaryCenter
    \/ FitPhaseOffset
    \/ KeepMinIter
    \/ StopMaxIter
    \/ KeepCenterMoved
    \/ StopConverged
    \/ StopStalled
    \/ KeepNoConvergence
    \/ Return

Spec == Init /\ [][Next]_vars

\* The statements of the loop body in the order alg.py executes them
Positions ==
    {"radius", "index", "center", "offset", "check", "return", "done", "raised"}

\* Control leaves the current statement. A step of Next is possible exactly
\* where the first two conjuncts hold, and every step of Next moves pc, so
\* under Spec the steps of Proceed are the steps of Next.
Proceed ==
    /\ pc \in Positions \ {"done", "raised"}
    /\ pc = "radius" => ii < IterCap
    /\ pc' \in Positions \ {pc}

\* match_phase is one synchronous call: a statement that can be executed is
\* executed and control moves on
FairSpec == Spec /\ WF_pc(Proceed)

-----------------------------------------------------------------------------
(* Two match_phase calls whose statements are interleaved: threads of one   *)
(* process.  Every name match_phase assigns is a local of the call          *)
(* (alg.py:116-147) and every attribute of the interpolator is set on the   *)
(* instance in __init__ (interp.py:49-79), so a call's state is run_state   *)
(* and nothing else; the forward model is a function of its arguments.      *)

\* Resume with the border cache kept from the call that ran last, as if
\* _n_border, _r_border and _border_pha were attributes of the class
Resume_shared_cache(s) ==
    /\ cfg' = s.cfg
    /\ spi' = [s.spi EXCEPT !.n_border = spi.n_border,
                            !.r_border = spi.r_border,
                            !.border_pha = spi.border_pha]
    /\ pc' = s.pc
    /\ ii' = s.ii
    /\ dc' = s.dc
    /\ r_old' = s.r_old
    /\ n_old' = s.n_old
    /\ idr' = s.idr
    /\ idn' = s.idn
    /\ deltax' = s.deltax
    /\ deltay' = s.deltay
    /\ recorder' = s.recorder
    /\ interim' = s.interim
    /\ message' = s.message
    /\ warned' = s.warned
    /\ res' = s.res
    /\ hist' = s.hist

\* the executing call continues from the state s
Resume(s) ==
    /\ cfg' = s.cfg
    /\ spi' = s.spi
    /\ pc' = s.pc
    /\ ii' = s.ii
    /\ dc' = s.dc
    /\ r_old' = s.r_old
    /\ n_old' = s.n_old
    /\ idr' = s.idr
    /\ idn' = s.idn
    /\ deltax' = s.deltax
    /\ deltay' = s.deltay
    /\ recorder' = s.recorder
    /\ interim' = s.interim
    /\ message' = s.message
    /\ warned' = s.warned
    /\ res' = s.res
    /\ hist' = s.hist

\* the scheduler suspends the executing call and lets the other one run
Switch ==
    /\ active \in {1, 2}
    /\ active' = 3 - active
    /\ other' = run_state
    /\ Resume(other)
    /\ UNCHANGED <<op, nops, an, cc, bg, fs, bh, ry>>

\* the arguments of the two calls
ParCalls ==
    { << [min_iter |-> 2, max_iter |-> 2, stop_dc |-> StopDcPx * LSc,
          stop_dn |-> StopDnE4 * Sc, fix_pha_offset |-> FALSE,
          ret_qpi |-> TRUE],
         [min_iter |-> 1, max_iter |-> 3, stop_dc |-> StopDcPx * LSc,
          stop_dn |-> 0, fix_pha_offset |-> TRUE, ret_qpi |-> TRUE] >> }

InitPar ==
    \E cs \in ParCalls :
        /\ Started(new_run(cs[1], "radius"))
        /\ op = [name |-> "__init__", a |-> None, b |-> None, err |-> "none",
                   ret |-> <<>>]
        /\ nops = 0
        /\ other = new_run(cs[2], "radius")
        /\ active = 1
        /\ an = <<>>
        /\ cc = <<>>
        /\ bg = <<>>
        /\ fs = <<>>
        /\ bh = <<>>
        /\ ry = <<>>

\* a statement of the executing call; the images of the two calls are such
\* that the radius and index searches find their minimum at the center sample
RunStep ==
    /\ Next
    /\ idr' \in {0, range_ipol \div 2}
    /\ idn' \in {0, range_ipol \div 2}

NextPar ==
    \/ Switch
    \/ RunStep

SpecPar == InitPar /\ [][NextPar]_vars

-----------------------------------------------------------------------------
(* analyze: qpsphere.analyze (qpsphere/__init__.py) and                     *)
(* qpsphere.cnvnc.analyze (qpsphere/cnvnc.py), which differ in the handling *)
(* of EdgeDetectionError.  edgefit.analyze and imagefit.analyze are calls   *)
(* whose outcomes are inputs; an counts them.                               *)

\* models/__init__.py:10-15, the keys of model_dict
model_dict == {"mie", "mie-avg", "projection", "rytov", "rytov-sc"}

\* cnvnc.py:100: the fallback index guess is .01 off the medium index
GuessE4 == 100

Modules == {"qpsphere", "cnvnc"}
Methods == {"edge", "image", "hough"}
Models == {"projection", "mie", "sphere"}

\* what edgefit.analyze can return for the image: n, r, center
EdgeEstimates ==
    { [n0 |-> n0, r0 |-> r0 - 10 * Sc, c0 |-> <<12 * LSc, 13 * LSc>>] }

\* what a call of edgefit.analyze ends with (edgefit.py:53-70, 232-234,
\* 244-247, 296-304)
EdgeOutcomes == {"ok", "EdgeDetectionError", "ValueError"}

\* analyze(qpi, r0, method, model, ret_qpi=...) is called; sign is
\* np.sign(np.sum(qpi.pha))
new_analyze(module, method, model, sign, ret_qpi) ==
    [pc |-> "call", module |-> module, method |-> method, model |-> model,
     sign |-> sign, ret_qpi |-> ret_qpi,
     edge |-> "none", nedge |-> 0, nsim |-> 0, nfit |-> 0,
     guess |-> <<>>, err |-> "none"]

raise(a, e) == [a EXCEPT !.pc = "done", !.err = e]

\* dispatch with the model test of the edge method after the edge detection
dispatch_late(a) ==
    IF a.method \in {"edge", "image"} THEN [a EXCEPT !.pc = "edge"]
    ELSE raise(a, "NotImplementedError")

\* __init__.py:66-68, 90, 107-108 (cnvnc.py:65-67, 89, 112-113)
dispatch(a) ==
    IF a.method = "edge"
    THEN IF a.model # "projection" THEN raise(a, "ValueError")
         ELSE [a EXCEPT !.pc = "edge"]
    ELSE IF a.method = "image" THEN [a EXCEPT !.pc = "edge"]
    ELSE raise(a, "NotImplementedError")

\* cnvnc.py:97-100: the best guess after a failed edge detection, r0 is kept
fallback(a) ==
    [n0 |-> medium_index + a.sign * GuessE4 * Sc, r0 |-> r0, c0 |-> c0]

\* __init__.py:69-74, 91-96 (cnvnc.py:68-73, 90-100): how analyze goes on
\* after edgefit.analyze ended with outcome o and, if "ok", the estimate e
after_edge(a, o, e) ==
    IF o = "ok"
    THEN IF a.method = "edge" THEN [a EXCEPT !.pc = "result", !.guess = e]
         ELSE [a EXCEPT !.pc = "imagefit", !.guess = e]
    ELSE IF o = "EdgeDetectionError" /\ a.method = "image"
            /\ a.module = "cnvnc"
    THEN [a EXCEPT !.pc = "imagefit", !.guess = fallback(a)]
    ELSE raise(a, o)

Frame ==
    UNCHANGED <<cfg, spi, runvars, op, nops, other, active, cc, bg, fs, bh, ry>>

\* analyze is entered
AnalyzeCall ==
    /\ an # <<>>
    /\ an.pc = "call"
    /\ an' = dispatch(an)
    /\ Frame

\* edgefit.analyze(qpi, r0, edgekw, ret_center=True)
EdgeAnalyze ==
    /\ an # <<>>
    /\ an.pc = "edge"
    /\ \E o \in EdgeOutcomes, e \in EdgeEstimates :
         an' = after_edge([an EXCEPT !.edge = o, !.nedge = @ + 1], o, e)
    /\ Frame

\* __init__.py:75-89: the result of the edge method, simulated if ret_qpi
EdgeResult ==
    /\ an # <<>>
    /\ an.pc = "result"
    /\ an' = [an EXCEPT !.pc = "done",
                        !.nsim = IF an.ret_qpi THEN @ + 1 ELSE @]
    /\ Frame

\* imagefit.analyze -> match_phase; the interpolator looks the model up in
\* model_dict when it is constructed (interp.py:54), before the loop
ImageFit ==
    /\ an # <<>>
    /\ an.pc = "imagefit"
    /\ an' = IF an.model \in model_dict
             THEN [an EXCEPT !.pc = "done", !.nfit = @ + 1]
             ELSE raise(an, "KeyError")
    /\ Frame

\* no call of match_phase is in progress
NoRun ==
    /\ Started(new_run(CHOOSE c \in Configs : TRUE, "idle"))
    /\ op = [name |-> "__init__", a |-> None, b |-> None, err |-> "none",
             ret |-> <<>>]
    /\ nops = 0
    /\ other = <<>>
    /\ active = 0

InitAnalyze ==
    /\ NoRun
    /\ cc = <<>>
    /\ bg = <<>>
    /\ fs = <<>>
    /\ bh = <<>>
    /\ ry = <<>>
    /\ \E module \in Modules, method \in Methods, model \in Models,
          sign \in {-1, 0, 1}, ret_qpi \in BOOLEAN :
         an = new_analyze(module, method, model, sign, ret_qpi)

NextAnalyze ==
    \/ AnalyzeCall
    \/ EdgeAnalyze
    \/ EdgeResult
    \/ ImageFit

SpecAnalyze == InitAnalyze /\ [][NextAnalyze]_vars

-----------------------------------------------------------------------------
(* contour_canny (qpsphere/edgefit.py).  The image is a set of pixels with  *)
(* their distance rad from the image centre and whether they lie inside     *)
(* the ellipse of step 3.a; what feature.canny detects is an input.         *)

\* maxiter is drawn from 0..MaxCannyIter
MaxCannyIter == 3

\* edgefit.py:178-180, the defaults of mult_coarse, mult_fine, clip_rmin and
\* clip_rmax as fractions
MultCoarseNum == 2
MultCoarseDen == 5
MultFineDen == 10
ClipRminNum == 9
ClipRmaxNum == 11
ClipDen == 10
\* edgefit.py:249, the fine scale shrinks by .7 per coarse retry
FineFactNum == 7
FineFactDen == 10
\* edgefit.py:301, the smallest edge that is returned
MinPoints == 4

\* image.shape[0]
sx == 25

Pixels ==
    { [id |-> 1, rad |-> 10, inside |-> TRUE],
      [id |-> 2, rad |-> 10, inside |-> TRUE],
      [id |-> 3, rad |-> 10, inside |-> TRUE],
      [id |-> 4, rad |-> 11, inside |-> TRUE],
      [id |-> 5, rad |-> 4, inside |-> TRUE],
      [id |-> 6, rad |-> 16, inside |-> TRUE],
      [id |-> 7, rad |-> 20, inside |-> FALSE] }

RECURSIVE SumRad(_)
\* np.sum(rad * edge)
SumRad(E) ==
    IF E = {} THEN 0
    ELSE LET p == CHOOSE q \in E : TRUE IN p.rad + SumRad(E \ {p})

MinRad(E) == CHOOSE r \in {p.rad : p \in E} : \A p \in E : r <= p.rad

RECURSIVE Pow(_, _)
Pow(b, e) == IF e = 0 THEN 1 ELSE b * Pow(b, e - 1)

\* edgefit.py:238-239, sigma_coarse of attempt i as a fraction
sigma_coarse(radius, i) ==
    <<radius * MultCoarseNum, MultCoarseDen * Pow(2, i)>>

\* edgefit.py:249, 261, sigma_fine after the coarse loop ended with ii = i
sigma_fine(radius, i) ==
    <<radius * Pow(FineFactNum, i), MultFineDen * Pow(FineFactDen, i)>>

\* edgefit.py:271-273
ellipse(E) == {p \in E : p.inside}

\* edgefit.py:279-282: the coarse radii that are kept (non-zero entries of
\* rad_coarse); with no coarse pixel avg_coarse is nan and nothing compares
clip_coarse(C) ==
    {p \in C : /\ p.rad # 0
               /\ ~(p.rad * Cardinality(C) * ClipDen < SumRad(C) * ClipRminNum)
               /\ ~(p.rad * Cardinality(C) * ClipDen > SumRad(C) * ClipRmaxNum)}

\* edgefit.py:285-287
filter_inside(F, K) ==
    IF SumRad(K) # 0 THEN {p \in F : ~(p.rad < MinRad(K))} ELSE F

\* edgefit.py:290-292, one round
clip_outside(F) ==
    {p \in F : ~(p.rad * Cardinality(F) * ClipDen > SumRad(F) * ClipRmaxNum)}

\* edgefit.py:266-299: the edge that is kept from the fine and the coarse
\* detection, or the error
remove_parts(fine, coarse) ==
    IF ellipse(fine) # {}
    THEN [used |-> "fine", err |-> "none",
          edge |-> clip_outside(clip_outside(
                       filter_inside(ellipse(fine),
                                     clip_coarse(ellipse(coarse)))))]
    ELSE IF ellipse(coarse) # {}
    THEN [used |-> "coarse", err |-> "none", edge |-> ellipse(coarse)]
    ELSE [used |-> "none", err |-> "EdgeDetectionError", edge |-> {}]

\* the size test applied to the fine edge only
checked_fine_only(r) ==
    IF r.err = "none" /\ r.used = "fine" /\ Cardinality(r.edge) < MinPoints
    THEN [r EXCEPT !.err = "EdgeDetectionError"]
    ELSE r

\* edgefit.py:300-304
checked(r) ==
    IF r.err = "none" /\ Cardinality(r.edge) < MinPoints
    THEN [r EXCEPT !.err = "EdgeDetectionError"]
    ELSE r

\* contour_canny(image, radius, maxiter=maxiter, verbose=verbose)
new_canny(radius, maxiter, verbose) ==
    [pc |-> "call", radius |-> radius, maxiter |-> maxiter,
     verbose |-> verbose, coarse |-> <<>>, sigmas |-> <<>>,
     fine |-> <<>>, ncanny |-> 0, warned |-> FALSE,
     used |-> "none", edge |-> {}, err |-> "none"]

EdgeFrame ==
    UNCHANGED <<cfg, spi, runvars, op, nops, other, active, an, bg, fs, bh, ry>>

\* a loop that makes one more pass
in_range_inclusive(c) == Len(c.coarse) <= c.maxiter

\* edgefit.py:237, for ii in range(maxiter): another pass is made
in_range(c) == Len(c.coarse) < c.maxiter

\* edgefit.py:232-234
CannyCall ==
    /\ cc # <<>>
    /\ cc.pc = "call"
    /\ cc' = IF 2 * cc.radius > sx
             THEN [cc EXCEPT !.pc = "raised", !.err = "ValueError"]
             ELSE [cc EXCEPT !.pc = "coarse"]
    /\ EdgeFrame

\* edgefit.py:237-243, one pass of the loop; ii is Len(cc.coarse) before
CoarseAttempt ==
    /\ cc # <<>>
    /\ cc.pc = "coarse"
    /\ in_range(cc)
    /\ \E E \in SUBSET Pixels :
         cc' = [cc EXCEPT
                  !.sigmas = Append(@, sigma_coarse(cc.radius, Len(cc.coarse))),
                  !.coarse = Append(@, E),
                  !.ncanny = @ + 1,
                  !.pc = IF E # {} THEN "fine" ELSE "coarse"]
    /\ EdgeFrame

\* edgefit.py:244-247, the else of the loop
CoarseExhausted ==
    /\ cc # <<>>
    /\ cc.pc = "coarse"
    /\ ~in_range(cc)
    /\ cc' = [cc EXCEPT !.pc = "raised", !.err = "EdgeDetectionError"]
    /\ EdgeFrame

\* the outcome r of steps 3 and 4 is raised or returned
finish(c, r) ==
    [c EXCEPT !.pc = IF r.err = "none" THEN "returned" ELSE "raised",
              !.err = r.err, !.used = r.used,
              !.edge = IF r.err = "none" THEN r.edge ELSE {}]

\* edgefit.py:249-305
FinePass ==
    /\ cc # <<>>
    /\ cc.pc = "fine"
    /\ \E F \in SUBSET Pixels :
         cc' = finish([cc EXCEPT
                         !.warned = cc.verbose /\ Len(cc.coarse) # 1,
                         !.fine = <<sigma_fine(cc.radius, Len(cc.coarse) - 1), F>>,
                         !.ncanny = @ + 1],
                      checked(remove_parts(F, cc.coarse[Len(cc.coarse)])))
    /\ EdgeFrame

InitEdge ==
    /\ NoRun
    /\ an = <<>>
    /\ bg = <<>>
    /\ fs = <<>>
    /\ bh = <<>>
    /\ ry = <<>>
    /\ \E radius \in {5, 13}, maxiter \in 0..MaxCannyIter, verbose \in BOOLEAN :
         cc = new_canny(radius, maxiter, verbose)

NextEdge ==
    \/ CannyCall
    \/ CoarseAttempt
    \/ CoarseExhausted
    \/ FinePass

SpecEdge == InitEdge /\ [][NextEdge]_vars

-----------------------------------------------------------------------------
(* The projection model (qpsphere/models/projection.py) and                 *)
(* bg_phase_mask_from_sim (qpsphere/cnvnc.py).  Lengths are in half pixels, *)
(* so that radii and centers between two pixels are covered.                *)

\* the image has GridSize x GridSize pixels
GridSize == 5
\* radius / pixel_size is drawn from 1/2 .. MaxDiameter/2 pixels
MaxDiameter == 6
\* the center lies up to Beyond half pixels outside the first or last pixel
Beyond == 2

Grid == (0 .. GridSize - 1) \X (0 .. GridSize - 1)

\* projection.py:38, r in quarter square pixels at pixel p
r_at(s, p) ==
    s.rpx * s.rpx - (2 * p[1] - s.cx) * (2 * p[1] - s.cx)
                  - (2 * p[2] - s.cy) * (2 * p[2] - s.cy)

\* projection.py:40-44: z = 2 sqrt(r) pixel_size where r > 0, else 0, and
\* phase = (sphere_index - medium_index) 2 PI z / wavelength.  The entry is
\* delta_n z^2 in square pixels: zero, positive or negative as the phase is
projection(s) ==
    [p \in Grid |-> IF r_at(s, p) > 0 THEN s.delta_n * r_at(s, p) ELSE 0]

\* cnvnc.py:141-147, in quarter square pixels; radial_clearance = 1
bg_phase_mask_from_sim(s) ==
    [p \in Grid |->
        (2 * p[1] - s.cx) * (2 * p[1] - s.cx)
            + (2 * p[2] - s.cy) * (2 * p[2] - s.cy)
          > s.rpx * s.rpx]

MaskFrame ==
    UNCHANGED <<cfg, spi, runvars, op, nops, other, active, an, cc, fs, bh, ry>>

\* qpsphere.simulate(model="projection", ...)
Simulate ==
    /\ bg # <<>>
    /\ bg.pc = "new"
    /\ bg' = [bg EXCEPT !.pc = "simulated", !.pha = projection(bg)]
    /\ MaskFrame

\* bg_phase_mask_from_sim(sim, radial_clearance=1)
Mask ==
    /\ bg # <<>>
    /\ bg.pc = "simulated"
    /\ bg' = [bg EXCEPT !.pc = "masked", !.mask = bg_phase_mask_from_sim(bg)]
    /\ MaskFrame

InitMask ==
    /\ NoRun
    /\ an = <<>>
    /\ cc = <<>>
    /\ fs = <<>>
    /\ bh = <<>>
    /\ ry = <<>>
    /\ \E rpx \in 1..MaxDiameter,
          cx \in (-Beyond) .. (2 * (GridSize - 1) + Beyond),
          cy \in (-Beyond) .. (2 * (GridSize - 1) + Beyond),
          delta_n \in {-6, 6} :
         bg = [pc |-> "new", rpx |-> rpx, cx |-> cx, cy |-> cy,
               delta_n |-> delta_n, pha |-> <<>>, mask |-> <<>>]

NextMask ==
    \/ Simulate
    \/ Mask

SpecMask == InitMask /\ [][NextMask]_vars

-----------------------------------------------------------------------------
(* The BHFIELD binaries (qpsphere/util.py, models/_bhfield/fetch.py): the   *)
(* files of the package resources directory and of the user cache, and      *)
(* the calls download_binaries and remove_binaries on them.                 *)

\* number of calls of download_binaries and remove_binaries
MaxCalls == 3

\* fetch.py:17-18, in the order of get_binaries (arp in [False, True])
EXE_STD == "bhfield-std.exe"
EXE_ARP == "bhfield-arp.exe"
Binaries == {EXE_STD, EXE_ARP}

\* platform.system(); fetch.py:72-79 knows Windows and Linux
Platforms == {"Linux", "Darwin"}

\* how download_binary ends (fetch.py:47-68)
DownloadOutcomes == {"ok", "URLError", "BinaryMD5SumCheckError"}

\* the state of a file of the cache: md5sum(file) == md5 or not
CacheStates == {"absent", "ok", "corrupt"}

\* pathlib.Path.exists for a path <<directory, name>>
exists(f, path) ==
    IF path[1] = "resources" THEN f.res[path[2]]
    ELSE f.cachedir /\ f.cache[path[2]] # "absent"

\* fetch.py:47-68: the file is written anew; a failed transfer leaves the
\* file that dest.open("wb") created, a bad checksum leaves what was received
download_binary(f, exe, dl) ==
    [fs |-> [f EXCEPT !.cachedir = TRUE,
                      !.cache[exe] = IF dl = "ok" THEN "ok" ELSE "corrupt"],
     path |-> IF dl = "ok" THEN <<"cache", exe>> ELSE <<>>,
     err |-> IF dl = "ok" THEN "none" ELSE dl]

\* get_binary looking into the cache before the resources directory
get_binary_cache_first(f, exe, dl) ==
    IF f.plat \notin {"Windows", "Linux"}
    THEN [fs |-> f, path |-> <<>>, err |-> "BinaryNotAvailableError"]
    ELSE IF f.cachedir /\ f.cache[exe] = "ok"
    THEN [fs |-> f, path |-> <<"cache", exe>>, err |-> "none"]
    ELSE IF f.res[exe]
    THEN [fs |-> f, path |-> <<"resources", exe>>, err |-> "none"]
    ELSE download_binary(f, exe, dl)

\* fetch.py:83-109
get_binary(f, exe, dl) ==
    IF f.plat \notin {"Windows", "Linux"}
    THEN [fs |-> f, path |-> <<>>, err |-> "BinaryNotAvailableError"]
    ELSE IF f.res[exe]
    THEN [fs |-> f, path |-> <<"resources", exe>>, err |-> "none"]
    ELSE IF f.cachedir /\ f.cache[exe] = "ok"
    THEN [fs |-> f, path |-> <<"cache", exe>>, err |-> "none"]
    ELSE download_binary(f, exe, dl)

\* fetch.py:112-117, the second binary after the first one a
get_binaries_next(a, dls) ==
    IF a.err # "none" THEN [fs |-> a.fs, paths |-> <<>>, err |-> a.err]
    ELSE [fs |-> get_binary(a.fs, EXE_ARP, dls[EXE_ARP]).fs,
          paths |-> IF get_binary(a.fs, EXE_ARP, dls[EXE_ARP]).err = "none"
                    THEN <<a.path, get_binary(a.fs, EXE_ARP, dls[EXE_ARP]).path>>
                    ELSE <<>>,
          err |-> get_binary(a.fs, EXE_ARP, dls[EXE_ARP]).err]

get_binaries(f, dls) ==
    get_binaries_next(get_binary(f, EXE_STD, dls[EXE_STD]), dls)

\* util.py:38-51, after get_binaries ended with g
copy_to_package(g, package_dir) ==
    IF g.err # "none" \/ ~package_dir THEN g
    ELSE [fs |-> [g.fs EXCEPT !.res = [e \in Binaries |-> TRUE]],
          paths |-> [i \in 1..Len(g.paths) |-> <<"resources", g.paths[i][2]>>],
          err |-> "none"]

\* util.py:15-51
download_binaries(f, package_dir, dls) ==
    copy_to_package(get_binaries(f, dls), package_dir)

\* util.py:54-76; every file but the marker of the directory is unlinked,
\* and iterdir fails on a cache directory that was never created
remove_binaries(f, package_dir) ==
    IF package_dir
    THEN [fs |-> [f EXCEPT !.res = [e \in Binaries |-> FALSE]], err |-> "none"]
    ELSE IF ~f.cachedir THEN [fs |-> f, err |-> "FileNotFoundError"]
    ELSE [fs |-> [f EXCEPT !.cache = [e \in Binaries |-> "absent"]],
          err |-> "none"]

called_fs(g, name, package_dir, ret, err) ==
    [g EXCEPT !.ncalls = @ + 1,
              !.call = [name |-> name, package_dir |-> package_dir,
                        ret |-> ret, err |-> err]]

FsFrame ==
    UNCHANGED <<cfg, spi, runvars, op, nops, other, active, an, cc, bg, bh, ry>>

DownloadBinaries ==
    /\ fs # <<>>
    /\ fs.ncalls < MaxCalls
    /\ \E package_dir \in BOOLEAN, dls \in [Binaries -> DownloadOutcomes] :
         fs' = called_fs(download_binaries(fs, package_dir, dls).fs,
                         "download_binaries", package_dir,
                         download_binaries(fs, package_dir, dls).paths,
                         download_binaries(fs, package_dir, dls).err)
    /\ FsFrame

RemoveBinaries ==
    /\ fs # <<>>
    /\ fs.ncalls < MaxCalls
    /\ \E package_dir \in BOOLEAN :
         fs' = called_fs(remove_binaries(fs, package_dir).fs,
                         "remove_binaries", package_dir, <<>>,
                         remove_binaries(fs, package_dir).err)
    /\ FsFrame

InitFs ==
    /\ NoRun
    /\ an = <<>>
    /\ cc = <<>>
    /\ bg = <<>>
    /\ bh = <<>>
    /\ ry = <<>>
    /\ \E plat \in Platforms, inres \in [Binaries -> BOOLEAN],
          cache \in [Binaries -> CacheStates], cachedir \in BOOLEAN :
         /\ ~cachedir => \A e \in Binaries : cache[e] = "absent"
         /\ fs = [plat |-> plat, res |-> inres, cache |-> cache,
                  cachedir |-> cachedir, ncalls |-> 0,
                  call |-> [name |-> "none", package_dir |-> FALSE,
                            ret |-> <<>>, err |-> "none"]]

NextFs ==
    \/ DownloadBinaries
    \/ RemoveBinaries

SpecFs == InitFs /\ [][NextFs]_vars

-----------------------------------------------------------------------------
(* simulate_sphere (qpsphere/models/_bhfield/wrap.py): the runs of the      *)
(* BHFIELD binary in standard and in arbitrary precision.  How a run ends   *)
(* is an input.                                                             *)

\* how run_simulation ends: the binary fails (wrap.py:291), its output is
\* missing or too small (wrap.py:301-311), or neither
RunOutcomes == {"ok", "CalledProcessError", "BHFIELDExecutionError"}

\* shape_grid, per axis
GridShapes == {1, 2, 4}

\* simulate_sphere(shape_grid=shape, size_simulation_um=(20, 20), arp=arp)
new_sphere(shape, arp) ==
    [pc |-> "call", arp0 |-> arp, arp |-> arp, shape |-> shape,
     sizeum |-> <<20, 20>>, attempts |-> <<>>, warned |-> 0,
     ntemp |-> 0, ncleared |-> 0, err |-> "none", result |-> <<>>]

\* a failed run is raised whatever the precision was
after_failure_no_retry(b, o) ==
    [b EXCEPT !.pc = "raised", !.err = o]

\* wrap.py:201-209: the run of b has failed with o
after_failure(b, o) ==
    IF b.arp THEN [b EXCEPT !.pc = "raised", !.err = o]
    ELSE [b EXCEPT !.warned = @ + 1, !.arp = TRUE, !.ncleared = @ + 1]

\* wrap.py:175-211, one pass of the loop with the run ending in o
attempt(b, o) ==
    IF o = "ok" THEN [b EXCEPT !.pc = "load"] ELSE after_failure(b, o)

SphereFrame ==
    UNCHANGED <<cfg, spi, runvars, op, nops, other, active, an, cc, bg, fs, ry>>

\* wrap.py:157-173
SphereCall ==
    /\ bh # <<>>
    /\ bh.pc = "call"
    /\ bh' = [bh EXCEPT !.pc = "loop",
                        !.sizeum = <<IF bh.shape[1] = 1 THEN 0 ELSE @[1],
                                     IF bh.shape[2] = 1 THEN 0 ELSE @[2]>>]
    /\ SphereFrame

\* wrap.py:175-211
Attempt ==
    /\ bh # <<>>
    /\ bh.pc = "loop"
    /\ \E o \in RunOutcomes :
         bh' = attempt([bh EXCEPT
                          !.ntemp = @ + 1,
                          !.attempts = Append(@, [arp |-> bh.arp,
                                                  outcome |-> o])], o)
    /\ SphereFrame

\* wrap.py:213-216
LoadField ==
    /\ bh # <<>>
    /\ bh.pc = "load"
    /\ bh' = [bh EXCEPT !.pc = "returned", !.ncleared = @ + 1,
                        !.result = <<bh.shape, bh.arp>>]
    /\ SphereFrame

InitSphere ==
    /\ NoRun
    /\ an = <<>>
    /\ cc = <<>>
    /\ bg = <<>>
    /\ fs = <<>>
    /\ ry = <<>>
    /\ \E shape \in GridShapes \X GridShapes, arp \in BOOLEAN :
         bh = new_sphere(shape, arp)

NextSphere ==
    \/ SphereCall
    \/ Attempt
    \/ LoadField

SpecSphere == InitSphere /\ [][NextSphere]_vars

\* simulate_sphere is one synchronous call: its next statement is executed
FairSpecSphere == SpecSphere /\ WF_bh(NextSphere)

-----------------------------------------------------------------------------
(* rytov_sc (qpsphere/models/mod_rytov_sc.py).  Refractive indices and the  *)
(* correction parameters are in units of 1e-3, radii in nm.                 *)

\* the sphere index is drawn from medium index - IndexSpan .. + IndexSpan
IndexSpan == 30

\* mod_rytov_sc.py:7-11, RSC_PARAMS[42]
RscSampling == 42
RscNa == 1936
RscNb == -12
RscRa == -2431
RscRb == -753
RscRc == 1001
\* the unit of the indices and parameters
E3 == 1000

\* np.sqrt on a non-negative number, rounded down
isqrt(n) == CHOOSE s \in 0..(2 * E3) : s * s <= n /\ n < (s + 1) * (s + 1)

\* mod_rytov_sc.py:57, rt in units of 1e-6
rsc_rt(sphere_index_sc, medium) ==
    RscNb * RscNb - 4 * RscNa * E3 + 2 * RscNb * E3 + E3 * E3
        + 10 * ((4 * RscNa * 100 * sphere_index_sc) \div medium)

\* mod_rytov_sc.py:55-58
rsc_sphere_index(sphere_index_sc, medium) ==
    (medium * (2 * RscNa - RscNb - E3 + isqrt(rsc_rt(sphere_index_sc, medium))))
        \div (2 * RscNa)

\* mod_rytov_sc.py:60, x in units of 1e-3
rsc_x(sphere_index, medium) == (sphere_index * E3) \div medium - E3

\* mod_rytov_sc.py:62-64, the divisor rounded to 1e-3
rsc_radius(radius_sc, x) ==
    (radius_sc * E3)
        \div ((RscRa * x * x + RscRb * x * E3 + RscRc * E3 * E3) \div (E3 * E3))

\* mod_rytov_sc.py:15-66 (get_params: 124-129)
correct_rytov_sc_input(radius_sc, sphere_index_sc, medium, radius_sampling) ==
    IF radius_sampling # RscSampling
    THEN [err |-> "ValueError", radius |-> 0, sphere_index |-> 0]
    ELSE [err |-> "none",
          sphere_index |-> rsc_sphere_index(sphere_index_sc, medium),
          radius |-> rsc_radius(radius_sc,
                        rsc_x(rsc_sphere_index(sphere_index_sc, medium),
                              medium))]

\* rytov_sc(radius, sphere_index, medium_index, radius_sampling)
new_rytov_sc(radius, sphere_index, medium, radius_sampling) ==
    [pc |-> "call", radius |-> radius, sphere_index |-> sphere_index,
     medium_index |-> medium, radius_sampling |-> radius_sampling,
     r_ryt |-> 0, n_ryt |-> 0, err |-> "none", qpi |-> <<>>]

RytovFrame ==
    UNCHANGED <<cfg, spi, runvars, op, nops, other, active, an, cc, bg, fs, bh>>

\* mod_rytov_sc.py:167-170; c is what correct_rytov_sc_input returns
CorrectedInput(c) ==
    ry' = IF c.err # "none" THEN [ry EXCEPT !.pc = "raised", !.err = c.err]
          ELSE [ry EXCEPT !.pc = "rytov", !.r_ryt = c.radius,
                          !.n_ryt = c.sphere_index]

CorrectInput ==
    /\ ry # <<>>
    /\ ry.pc = "call"
    /\ CorrectedInput(correct_rytov_sc_input(ry.radius, ry.sphere_index,
                                             ry.medium_index,
                                             ry.radius_sampling))
    /\ RytovFrame

\* mod_rytov_sc.py:172-185: the Rytov image of the uncorrected parameters,
\* labelled with the parameters of the call
Rytov ==
    /\ ry # <<>>
    /\ ry.pc = "rytov"
    /\ ry' = [ry EXCEPT !.pc = "returned",
                        !.qpi = [model |-> "rytov", radius |-> ry.r_ryt,
                                 sphere_index |-> ry.n_ryt,
                                 sim_radius |-> ry.radius,
                                 sim_index |-> ry.sphere_index]]
    /\ RytovFrame

InitRytov ==
    /\ NoRun
    /\ an = <<>>
    /\ cc = <<>>
    /\ bg = <<>>
    /\ fs = <<>>
    /\ bh = <<>>
    /\ \E d \in (-IndexSpan) .. IndexSpan, radius_sampling \in {RscSampling, 21} :
         ry = new_rytov_sc(5 * E3, medium_index \div (10 * Sc) + d,
                           medium_index \div (10 * Sc), radius_sampling)

NextRytov ==
    \/ CorrectInput
    \/ Rytov

SpecRytov == InitRytov /\ [][NextRytov]_vars

-----------------------------------------------------------------------------
(* Properties of a match_phase run                                          *)

CONVERGED == "success, satisfied stopping criteria"
MAX_ITER_EXCEEDED == "fail, reached maximum number of iterations"
STALLED == "fail, same parameters encountered twice"

\* the run has left the loop
stopped == pc \in {"return", "done"}

\* lateral movement of a recorded iteration against stop_dc
moved_beyond(h, limit) == h.deltax * h.deltax + h.deltay * h.deltay > limit * limit

\* the index and radius changes of a recorded iteration against the thresholds
within_thresholds(h) ==
    /\ h.result[2] > 0
    /\ Abs(h.result[2] - h.r_old) * StopDrDen < StopDrNum * h.result[2]
    /\ Abs(h.result[1] - h.n_old) < cfg.stop_dn

\* C1: a run with min_iter <= max_iter never executes more than max_iter
\* iterations, and the iteration limit stops it with the count -max_iter.
C1_AtMostMaxIter ==
    cfg.min_iter <= cfg.max_iter =>
        /\ Len(hist) <= cfg.max_iter
        /\ Abs(ii) <= cfg.max_iter
        /\ (stopped /\ message = MAX_ITER_EXCEEDED => ii = -cfg.max_iter)

\* C2: every run ends, with exactly one of the three endings.
C2_Terminates ==
    <>(pc = "done" /\ message \in {CONVERGED, MAX_ITER_EXCEEDED, STALLED})

C2_Witness ==
    /\ pc = "done"
    /\ message = MAX_ITER_EXCEEDED
    /\ Len(hist) = MaxIterBound + 1

\* C3: the returned count is positive exactly for a converged run and
\* negative exactly for a run ended by the iteration limit or a stall; its
\* absolute value is the number of iterations executed.
C3_SignedCount ==
    pc = "done" =>
        /\ (res.num_iter > 0 <=> message = CONVERGED)
        /\ (res.num_iter < 0 <=> message \in {MAX_ITER_EXCEEDED, STALLED})
        /\ Abs(res.num_iter) = Len(hist)

C3_Witness ==
    /\ pc = "done"
    /\ message = STALLED
    /\ res.num_iter = -3

C5_MinIterFirst ==
    /\ \A k \in DOMAIN hist : k < cfg.min_iter => hist[k].outcome = "min_iter"
    /\ stopped => Abs(ii) >= cfg.min_iter

C5_Witness ==
    /\ cfg.max_iter = 1
    /\ cfg.min_iter = 3
    /\ Len(hist) >= 2
    /\ hist[2].outcome = "min_iter"
    /\ within_thresholds(hist[2])
    /\ ~moved_beyond(hist[2], cfg.stop_dc)
    /\ stopped

\* the iteration went as far as the stall check of alg.py:271-273
reached_stall_check(h) == h.outcome \in {"stalled", "continue"}

\* C6 as stated: an iteration that reaches the stall check stops STALLED
\* exactly when its (sphere_index, radius) pair is the result of three or
\* more of all iterations so far; the count is then negative and one warning
\* was emitted.
C6_StallCountsAllIterations ==
    /\ \A k \in DOMAIN hist :
           reached_stall_check(hist[k]) =>
               (hist[k].outcome = "stalled" <=>
                    Cardinality({j \in 1..k :
                        hist[j].result = hist[k].result}) >= 3)
    /\ stopped /\ message = STALLED => ii < 0 /\ warned = 1

\* C6 amended: the same, counting only the iterations that reached the
\* stall check themselves.
C6_StallCountsCheckedIterations ==
    /\ \A k \in DOMAIN hist :
           reached_stall_check(hist[k]) =>
               (hist[k].outcome = "stalled" <=>
                    Cardinality({j \in 1..k :
                        /\ reached_stall_check(hist[j])
                        /\ hist[j].result = hist[k].result}) >= 3)
    /\ stopped /\ message = STALLED => ii < 0 /\ warned = 1

C6_Witness ==
    /\ Len(hist) = 3
    /\ hist[3].outcome = "stalled"
    /\ hist[1].result = hist[3].result
    /\ hist[2].result = hist[3].result
    /\ ii = -3
    /\ warned = 1

\* the half-windows the interpolator is constructed with
dn0 == NewSPI(model_kwargs(c0), pha_offset0).dn
dr0 == NewSPI(model_kwargs(c0), pha_offset0).dr

\* C7: the half-windows are never negative; a step leaves each unchanged or
\* halves it, and only the accuracy update at the end of an iteration
\* changes them at all.
C7_HalfWindowsShrink ==
    [][ /\ spi.dn >= 0 /\ spi.dr >= 0
        /\ spi'.dn >= 0 /\ spi'.dr >= 0
        /\ spi'.dn = spi.dn \/ 2 * spi'.dn = spi.dn
        /\ spi'.dr = spi.dr \/ 2 * spi'.dr = spi.dr
        /\ pc # "check" => spi'.dn = spi.dn /\ spi'.dr = spi.dr ]_vars

C7_Witness ==
    /\ pc = "done"
    /\ Len(hist) >= 2
    /\ 4 * spi.dn = dn0
    /\ 2 * spi.dr = dr0

\* the sum of the lateral offsets found in iterations 1..k
RECURSIVE found_offsets(_)
found_offsets(k) ==
    IF k = 0 THEN <<0, 0>>
    ELSE <<found_offsets(k - 1)[1] + hist[k].deltax,
           found_offsets(k - 1)[2] + hist[k].deltay>>

\* the offset of the iteration under way, once its lateral search is done
pending_offset ==
    IF pc \in {"offset", "check"} THEN <<deltax, deltay>> ELSE <<0, 0>>

accumulated_center ==
    <<c0[1] - found_offsets(Len(hist))[1] - pending_offset[1],
      c0[2] - found_offsets(Len(hist))[2] - pending_offset[2]>>

\* C8: the center of the interpolator is the initial center minus the sum of
\* all offsets found so far, and this is the center returned.
C8_CenterAccumulates ==
    /\ <<spi.posx_offset, spi.posy_offset>> = accumulated_center
    /\ pc = "done" => res.center = accumulated_center

C8_Witness ==
    /\ pc = "done"
    /\ Len(hist) >= 2
    /\ hist[1].deltax # 0
    /\ hist[2].deltax # 0
    /\ hist[2].deltay # 0
    /\ res.center # <<c0[1] - hist[2].deltax, c0[2] - hist[2].deltay>>

-----------------------------------------------------------------------------
(* Properties of the SpherePhaseInterpolator under direct use               *)

\* the step is a call of the method
called(name) == op'.name = name /\ nops' = nops + 1

\* the slot has no image, or its stored key is not the pair (n, r)
slot_stale(s, k, n, r) ==
    k \notin DOMAIN s.border_pha \/ s.n_border[k] # n \/ s.r_border[k] # r

border_call_ok(k, n, r) ==
    /\ op'.err = "none"
    /\ spi'.ncalls = spi.ncalls + (IF slot_stale(spi, k, n, r) THEN 1 ELSE 0)
    /\ ~slot_stale(spi, k, n, r) => spi' = spi /\ op'.ret = spi.border_pha[k]
    /\ ~slot_stale(spi', k, n, r)
    /\ op'.ret = spi'.border_pha[k]

\* C9: get_border_phase(idn, idr) calls the forward model exactly when the
\* slot is empty or stored under another (n, r) pair, and otherwise returns
\* the stored image; afterwards the slot is stored under the current pair.
C9_BorderCache ==
    [][ called("get_border_phase") =>
            border_call_ok(<<op'.a[1] + 1, op'.b[1] + 1>>,
                           spi.sphere_index + op'.a[1] * spi.dn,
                           spi.radius + op'.b[1] * spi.dr) ]_vars

C9_Witness ==
    /\ op.name = "get_border_phase"
    /\ nops = 3
    /\ spi.ncalls = 2
    /\ DOMAIN spi.border_pha = {<<1, 1>>}

\* the query (nintp, rintp) violates a precondition of get_phase
bad_query(s, nintp, rintp) ==
    \/ nintp # s.sphere_index /\ rintp # s.radius
    \/ nintp < s.sphere_index - s.dn
    \/ nintp > s.sphere_index + s.dn
    \/ rintp < s.radius - s.dr
    \/ rintp > s.radius + s.dr

\* C10: get_phase with a query off both axes or outside a range raises an
\* assertion error, calls no forward model and leaves the interpolator,
\* border cache included, as it was.
C10_GetPhaseFailsFast ==
    [][ /\ called("get_phase")
        /\ bad_query(spi,
               IF op'.a = None THEN spi.sphere_index ELSE op'.a[1],
               IF op'.b = None THEN spi.radius ELSE op'.b[1])
        => op'.err = "AssertionError" /\ spi' = spi ]_vars

C10_Witness ==
    /\ op.name = "get_phase"
    /\ op.err = "AssertionError"
    /\ op.a # None
    /\ op.b # None
    /\ spi.ncalls = 0
    /\ nops = 1

-----------------------------------------------------------------------------
(* Properties of two interleaved match_phase calls                          *)

-----------------------------------------------------------------------------
(* Properties of analyze                                                    *)

analyze_left(step) == an # <<>> /\ an.pc \notin {"call"} \cup step

\* C12: after an EdgeDetectionError in analyze(method="image") the optimizer
\* is started with c0 = shape / 2, the caller's r0 and an index guess
\* medium_index +- 0.01 that differs from the medium index.
C12_FallbackGuess ==
    /\ analyze_left({"edge"})
    /\ an.method = "image"
    /\ an.edge = "EdgeDetectionError"
    => /\ an.err # "EdgeDetectionError"
       /\ an.guess # <<>>
       /\ an.guess.c0 = c0
       /\ an.guess.r0 = r0
       /\ Abs(an.guess.n0 - medium_index) = GuessE4 * Sc

\* the method / model combination that analyze does not support
invalid_combination(a) ==
    \/ a.method = "edge" /\ a.model # "projection"
    \/ a.method \notin {"edge", "image"}

\* C13: with method "edge" and a model other than "projection", or with a
\* method other than "edge" and "image", analyze raises before any edge
\* detection, forward-model evaluation or fit.
C13_InvalidCombinationRejected ==
    /\ analyze_left({})
    /\ invalid_combination(an)
    => /\ an.pc = "done"
       /\ an.err \in {"ValueError", "NotImplementedError"}
       /\ an.nedge = 0
       /\ an.nsim = 0
       /\ an.nfit = 0

C13_Witness ==
    /\ an # <<>>
    /\ an.pc = "done"
    /\ an.method = "edge"
    /\ an.model = "mie"
    /\ an.err = "ValueError"
    /\ an.nedge = 0

\* C14: analyze(method="image") with a model that is not in model_dict ends
\* with the error of the model lookup for every image, without any edge
\* detection before it.
C14_UnknownModelFirst ==
    /\ analyze_left({})
    /\ an.method = "image"
    /\ an.model \notin model_dict
    => /\ an.nedge = 0
       /\ an.pc = "done" => an.err = "KeyError"

-----------------------------------------------------------------------------
(* Properties of contour_canny                                              *)

canny_ended == cc # <<>> /\ cc.pc \in {"returned", "raised"}

\* C15 as stated: contour_canny ends either with EdgeDetectionError or with
\* the return of an edge of at least 4 pixels.
C15_ErrorOrFourPoints ==
    canny_ended =>
        \/ cc.pc = "raised" /\ cc.err = "EdgeDetectionError"
        \/ cc.pc = "returned" /\ Cardinality(cc.edge) >= 4

\* C15: contour_canny raises ValueError, before any detection, when the
\* radius exceeds half the image height; otherwise it either raises
\* EdgeDetectionError or returns an edge of at least 4 pixels, whether the
\* fine edge or the coarse fallback edge is used.
C15_ErrorOrFourPointsForValidRadius ==
    canny_ended =>
        \/ /\ cc.pc = "raised" /\ cc.err = "ValueError"
           /\ 2 * cc.radius > sx /\ cc.ncanny = 0
        \/ /\ cc.pc = "raised" /\ cc.err = "EdgeDetectionError"
           /\ 2 * cc.radius <= sx
        \/ /\ cc.pc = "returned" /\ Cardinality(cc.edge) >= 4
           /\ cc.used \in {"fine", "coarse"}
           /\ 2 * cc.radius <= sx

C15_Witness ==
    /\ cc # <<>>
    /\ cc.pc = "returned"
    /\ cc.used = "coarse"
    /\ cc.fine[2] # {}
    /\ Cardinality(cc.edge) = 4

coarse_failed ==
    cc # <<>> /\ cc.pc = "raised" /\ cc.err = "EdgeDetectionError"
              /\ cc.fine = <<>>

\* the coarse attempts so far: attempt i (from 0) ran at the scale
\* radius * mult_coarse * 0.5^i, and all but the last found no edge
coarse_retries ==
    /\ \A k \in 1..Len(cc.coarse) :
         /\ cc.sigmas[k] = <<cc.radius * MultCoarseNum,
                             MultCoarseDen * Pow(2, k - 1)>>
         /\ k < Len(cc.coarse) => cc.coarse[k] = {}
    /\ Len(cc.sigmas) = Len(cc.coarse)
    /\ cc.pc = "coarse" /\ cc.coarse # <<>> => cc.coarse[Len(cc.coarse)] = {}
    /\ cc.fine # <<>> => cc.coarse # <<>> /\ cc.coarse[Len(cc.coarse)] # {}
    /\ cc.ncanny = Len(cc.coarse) + (IF cc.fine # <<>> THEN 1 ELSE 0)
    /\ cc.ncanny <= cc.maxiter + 1

\* C16 as stated: the coarse pass fails once maxiter halvings, i.e. the
\* scales up to mult_coarse * 0.5^maxiter, have produced no edge.
C16_FailsAfterMaxiterHalvings ==
    /\ cc # <<>> => coarse_retries
    /\ coarse_failed =>
         /\ Len(cc.coarse) = cc.maxiter + 1
         /\ \A k \in 1..Len(cc.coarse) : cc.coarse[k] = {}

\* C16: the coarse pass tries the scales mult_coarse * 0.5^i for
\* i = 0 .. maxiter - 1 while the edge is empty, stops at the first non-empty
\* edge and fails with EdgeDetectionError once these maxiter attempts (the
\* last one after maxiter - 1 halvings) have produced no edge; the detector
\* runs at most maxiter + 1 times and the fine pass is not started after a
\* failed coarse pass.
C16_FailsAfterMaxiterAttempts ==
    /\ cc # <<>> => coarse_retries
    /\ coarse_failed =>
         /\ Len(cc.coarse) = cc.maxiter
         /\ \A k \in 1..Len(cc.coarse) : cc.coarse[k] = {}
         /\ cc.ncanny = cc.maxiter

C16_Witness ==
    /\ coarse_failed
    /\ cc.maxiter = 2
    /\ cc.radius = 5
    /\ cc.sigmas = << <<10, 5>>, <<10, 10>> >>

-----------------------------------------------------------------------------
(* Properties of the phase offset and of the interim history of a run       *)

\* C17: with fix_pha_offset the phase offset of the interpolator, of every
\* interim entry and of the returned result is the initial pha_offset.
C17_FixedPhaseOffset ==
    cfg.fix_pha_offset =>
        /\ spi.pha_offset = pha_offset0
        /\ \A k \in 1..Len(interim) : interim[k][2].pha_offset = pha_offset0
        /\ pc = "done" => res.pha_offset = pha_offset0

C17_Witness ==
    /\ pc = "done"
    /\ cfg.fix_pha_offset
    /\ Len(interim) >= 3
    /\ res.pha_offset = pha_offset0
    /\ res.center # c0

\* the history h holds the initial state and one entry per iteration, entry
\* k (from 0) carrying the index k and the four fit parameters
interim_entries(h) ==
    \A k \in 1..Len(h) :
        /\ h[k][1] = k - 1
        /\ DOMAIN h[k][2] = {"radius", "sphere_index", "pha_offset", "center"}

\* the number of entries after n iterations, the last of which has or has
\* not been recorded yet
interim_length ==
    Len(interim) = IF pc \in {"index", "center", "offset"} THEN Abs(ii)
                   ELSE Abs(ii) + 1

\* C18: the interim history is the initial state followed by one entry per
\* executed iteration, entry k with index k and the parameters radius,
\* sphere_index, pha_offset and center; a step appends at most one entry and
\* alters none; the last entry equals the returned fit parameters.
C18_InterimHistory ==
    /\ [](pc # "raised" => interim_entries(interim) /\ interim_length)
    /\ [](pc = "done" =>
            /\ res.interim = interim
            /\ Len(interim) = Abs(res.num_iter) + 1
            /\ interim[Len(interim)][2] =
                 [radius |-> res.radius, sphere_index |-> res.sphere_index,
                  pha_offset |-> res.pha_offset, center |-> res.center])
    /\ [][ /\ Len(interim') \in {Len(interim), Len(interim) + 1}
           /\ SubSeq(interim', 1, Len(interim)) = interim ]_vars

C18_Witness ==
    /\ pc = "done"
    /\ Len(res.interim) = 4
    /\ res.interim[4][1] = 3
    /\ res.interim[4][2].pha_offset # res.interim[3][2].pha_offset
    /\ res.interim[4][2].pha_offset = res.pha_offset
    /\ res.interim[1][2] = params(NewSPI(model_kwargs(c0), pha_offset0))

-----------------------------------------------------------------------------
(* Properties of the background mask                                        *)

\* C20: for a projection simulation with sphere_index # medium_index and
\* radial_clearance = 1 the mask is True exactly on the pixels whose phase is
\* 0 and False exactly on the pixels whose phase is not 0.
C20_MaskIsZeroPhase ==
    bg # <<>> /\ bg.pc = "masked" =>
        \A p \in Grid : bg.mask[p] <=> bg.pha[p] = 0

-----------------------------------------------------------------------------
(* Properties of the binaries                                               *)

\* the step is a call of name with package_dir that returned
returned_fs(name, package_dir) ==
    /\ fs # <<>>
    /\ fs'.ncalls = fs.ncalls + 1
    /\ fs'.call.name = name
    /\ fs'.call.package_dir = package_dir
    /\ fs'.call.err = "none"

\* C21: after any calls of download_binaries and remove_binaries,
\* download_binaries(package_dir=False) returns for each binary the copy in
\* the resources directory if there is one and the copy in the cache
\* otherwise, which it has fetched if it was missing; every returned path
\* exists; remove_binaries leaves the other directory as it was.
C21_ResourcesFirst ==
    [][ /\ returned_fs("download_binaries", FALSE) =>
             /\ Len(fs'.call.ret) = 2
             /\ \A i \in 1..2 :
                  LET exe == IF i = 1 THEN EXE_STD ELSE EXE_ARP
                  IN  /\ fs'.call.ret[i] = IF fs.res[exe]
                                           THEN <<"resources", exe>>
                                           ELSE <<"cache", exe>>
                      /\ exists(fs', fs'.call.ret[i])
                      /\ ~fs.res[exe] => fs'.cache[exe] = "ok"
             /\ fs'.res = fs.res
        /\ returned_fs("remove_binaries", TRUE) =>
             fs'.cache = fs.cache /\ fs'.cachedir = fs.cachedir
        /\ returned_fs("remove_binaries", FALSE) => fs'.res = fs.res ]_vars

C21_Witness ==
    /\ fs # <<>>
    /\ fs.ncalls = 3
    /\ fs.call.name = "download_binaries"
    /\ ~fs.call.package_dir
    /\ fs.call.ret = << <<"resources", EXE_STD>>, <<"resources", EXE_ARP>> >>
    /\ \A e \in Binaries : fs.cache[e] = "absent"

-----------------------------------------------------------------------------
(* Properties of simulate_sphere                                            *)

sphere_failed(k) == bh.attempts[k].outcome # "ok"

\* the attempts made so far and what followed them
sphere_attempts ==
    /\ Len(bh.attempts) <= 2
    /\ \A k \in 1..Len(bh.attempts) : bh.attempts[k].arp = (bh.arp0 \/ k = 2)
    /\ Len(bh.attempts) = 2 => ~bh.arp0 /\ sphere_failed(1)
    /\ bh.warned = IF Len(bh.attempts) >= 1 /\ ~bh.arp0 /\ sphere_failed(1)
                   THEN 1 ELSE 0
    /\ (Len(bh.attempts) = 1 /\ ~bh.arp0 /\ sphere_failed(1)) =>
           bh.pc = "loop" /\ bh.arp
    /\ bh.pc = "raised" =>
           /\ bh.attempts[Len(bh.attempts)].arp
           /\ sphere_failed(Len(bh.attempts))
           /\ bh.err = bh.attempts[Len(bh.attempts)].outcome
    /\ bh.pc \in {"load", "returned"} => ~sphere_failed(Len(bh.attempts))

\* C22: a failed standard-precision run of simulate_sphere(arp=False) is
\* followed by one warning and exactly one retry in arbitrary precision; a
\* failed arbitrary-precision run is raised to the caller; the simulation is
\* attempted at most twice and the call ends.
C22_RetryOnceWithArp ==
    /\ [](bh # <<>> => sphere_attempts)
    /\ <>(bh # <<>> /\ bh.pc \in {"returned", "raised"})

C22_Witness ==
    /\ bh # <<>>
    /\ bh.pc = "raised"
    /\ bh.err = "BHFIELDExecutionError"
    /\ bh.warned = 1
    /\ bh.attempts = << [arp |-> FALSE, outcome |-> "BHFIELDExecutionError"],
                        [arp |-> TRUE, outcome |-> "BHFIELDExecutionError"] >>

-----------------------------------------------------------------------------
(* Properties of rytov_sc                                                   *)

\* C23: rytov_sc with a sphere index below the medium index (and a supported
\* radius_sampling) ends with UnsupportedModelParametersError and returns no
\* image.
C23_LowIndexRejected ==
    /\ ry # <<>>
    /\ ry.pc # "call"
    /\ ry.radius_sampling = RscSampling
    /\ ry.sphere_index < ry.medium_index
    => /\ ry.pc = "raised"
       /\ ry.err = "UnsupportedModelParametersError"

-----------------------------------------------------------------------------
(* Properties of the border images a run is served                          *)

\* the two border images behind the phase g are forward-model images for
\* the current center of the interpolator
at_current_center(g) ==
    g.err = "none" =>
        /\ g.pha.left.center = <<spi.posx_offset, spi.posy_offset>>
        /\ g.pha.righ.center = <<spi.posx_offset, spi.posy_offset>>

\* C24: the border images that get_phase interpolates from are computed for
\* the current center: neither the phase-offset step that follows a lateral
\* step nor the radius search of the next iteration is served an image that
\* was computed for an earlier center.
C24_BorderImagesAtCurrentCenter ==
    /\ pc = "offset" /\ ~cfg.fix_pha_offset =>
           at_current_center(get_phase(spi, None, None, 0, 0))
    /\ pc = "radius" /\ ii < IterCap =>
           /\ at_current_center(get_phase(spi, None, Some(range_r(spi)[1]), 0, 0))
           /\ at_current_center(get_phase(spi, None, Some(range_r(spi)[2]), 0, 0))


\* the slot on the side of the query q of one axis: the -1 slot when q is below
\* the current value, the +1 slot otherwise
side_slot(s, nintp, rintp) ==
    IF rintp = s.radius
    THEN <<(IF nintp < s.sphere_index THEN 0 ELSE 2), 1>>
    ELSE <<1, (IF rintp < s.radius THEN 0 ELSE 2)>>

\* the image get_phase returned is center + (side - center) * weight + offset
\* for the query (nintp, rintp) put to the interpolator s
linear_between(s, nintp, rintp, t, ret) ==
    /\ {<<1, 1>>, side_slot(s, nintp, rintp)} \subseteq DOMAIN t.border_pha
    /\ ret.left = t.border_pha[<<1, 1>>]
    /\ ret.righ = t.border_pha[side_slot(s, nintp, rintp)]
    /\ ret.dist = (IF rintp = s.radius THEN Abs(nintp - s.sphere_index)
                                       ELSE Abs(rintp - s.radius))
    /\ ret.dmax = (IF rintp = s.radius THEN s.dn ELSE s.dr)
    /\ ret.dmax > 0
    /\ ret.shift = <<0, 0>>
    /\ ret.pha_offset = s.pha_offset
    /\ (nintp = s.sphere_index /\ rintp = s.radius) => ret.dist = 0
    /\ (nintp = s.sphere_index - s.dn \/ nintp = s.sphere_index + s.dn)
           /\ rintp = s.radius => ret.dist = ret.dmax
    /\ (rintp = s.radius - s.dr \/ rintp = s.radius + s.dr)
           /\ nintp = s.sphere_index => ret.dist = ret.dmax

\* C25: without lateral shift, get_phase for a query q on one axis returns
\* center + (side - center) * |q - current| / delta + phase offset, center being
\* border slot (0,0) and side the slot on the side of q (-1 below the current
\* value, +1 otherwise); the weight is 0 at q = current and 1 at
\* q = current - delta and q = current + delta.
C25_LinearInterpolation ==
    [][ called("get_phase") /\ op'.err = "none" =>
            linear_between(spi,
                IF op'.a = None THEN spi.sphere_index ELSE op'.a[1],
                IF op'.b = None THEN spi.radius ELSE op'.b[1],
                spi', op'.ret) ]_vars

C25_Witness ==
    /\ op.name = "get_phase"
    /\ op.err = "none"
    /\ op.a # None
    /\ op.a[1] < spi.sphere_index
    /\ op.ret.dist = op.ret.dmax
    /\ op.ret.righ = spi.border_pha[<<0, 1>>]
    /\ op.ret.left # op.ret.righ


\* the index lies within the central 20% of the range_ipol sample indices,
\* around index range_ipol \div 2, the sample that holds the current value
in_central_fifth(idx) == 10 * Abs(idx - range_ipol \div 2) < range_ipol

\* C26: the accuracy update at the end of an iteration halves delta_r
\* (delta_n) exactly when the minimizing index of the radius (index) search
\* lies within the central 20% of the 47 sample indices, a window centred on
\* index 23; otherwise it leaves the half-window unchanged.
C26_HalvingWindowCentred ==
    [][ pc = "check" /\ pc' # "check" =>
            /\ spi'.dr = (IF in_central_fifth(idr) THEN spi.dr \div 2 ELSE spi.dr)
            /\ spi'.dn = (IF in_central_fifth(idn) THEN spi.dn \div 2 ELSE spi.dn)
      ]_vars


\* no border pixel qualifies as background in the images of this iteration
no_background == \E p \in ProbesFound(linspace(-dc, dc, range_off)) : p.nan

\* the phase-offset step of an iteration that fits the offset
offset_step == pc = "offset" /\ pc' = "check" /\ ~cfg.fix_pha_offset

\* C27: in the phase-offset step (fix_pha_offset = False), when no border
\* pixel qualifies as background, the phase offset keeps the value it had
\* before the step.
C27_OffsetKeptWithoutBackground ==
    [][ offset_step /\ no_background => spi'.pha_offset = spi.pha_offset ]_vars

\* C27 amended: in that case the phase offset is set to 0, whatever value it
\* had before the step; with background pixels it is the negated mean.
C27_OffsetResetWithoutBackground ==
    [][ offset_step =>
            \E p \in ProbesFound(linspace(-dc, dc, range_off)) :
                spi'.pha_offset = (IF p.nan THEN 0 ELSE -p.phai) ]_vars

C27_Witness ==
    /\ pc = "check"
    /\ ~cfg.fix_pha_offset
    /\ no_background
    /\ Len(interim) >= 3
    /\ interim[Len(interim) - 1][2].pha_offset = pha_offset0 + 1
    /\ spi.pha_offset = 0


\* a finished run returned the parameters of its last iteration, whose count
\* it reports negated
best_effort_returned ==
    /\ res.sphere_index = spi.sphere_index
    /\ res.radius = spi.radius
    /\ res.center = <<spi.posx_offset, spi.posy_offset>>
    /\ <<res.sphere_index, res.radius>> = hist[Len(hist)].result
    /\ res.num_iter = -Len(hist)

\* C28: both failure endings, MAX_ITER_EXCEEDED and STALLED, raise no
\* exception, return the best-effort fitted parameters with a negative
\* iteration count, and emit a warning.
C28_FailuresWarn ==
    /\ pc = "done" /\ message \in {MAX_ITER_EXCEEDED, STALLED} =>
           best_effort_returned /\ warned >= 1
    /\ pc = "return" /\ message \in {MAX_ITER_EXCEEDED, STALLED} =>
           warned >= 1

\* C28 amended: both failure endings raise no exception and return the
\* best-effort fitted parameters with a negative iteration count; the STALLED
\* ending emits one warning, the MAX_ITER_EXCEEDED ending emits none.
C28_OnlyStallWarns ==
    /\ pc = "done" /\ message \in {MAX_ITER_EXCEEDED, STALLED} =>
           best_effort_returned
    /\ pc \in {"return", "done"} =>
           warned = (IF message = STALLED THEN 1 ELSE 0)
    /\ pc = "raised" => message \notin {MAX_ITER_EXCEEDED, STALLED}

C28_Witness ==
    /\ pc = "done"
    /\ message = MAX_ITER_EXCEEDED
    /\ warned = 0
    /\ res.num_iter < 0
    /\ res.radius # r0


\* every sample of qs, put to get_phase as the index (axis "n") or the radius
\* (axis "r") with the other left at its current value, meets the
\* preconditions of get_phase
samples_admissible(s, qs, axis) ==
    \A i \in DOMAIN qs :
        ~bad_query(s, IF axis = "n" THEN qs[i] ELSE s.sphere_index,
                      IF axis = "r" THEN qs[i] ELSE s.radius)

\* C29: in every state of a match_phase run started with n0 # medium_index,
\* r0 > 0, nrel > 0 and rrel > 0, delta_n > 0 and delta_r > 0, and every
\* get_phase call of the optimizer meets the preconditions of get_phase (one
\* axis at a time, the query within the current range); no assertion fires
\* and the interpolation weight has a non-zero divisor.
C29_PreconditionsMet ==
    /\ pc # "raised"
    /\ spi.dn > 0 /\ spi.dr > 0
    /\ pc = "radius" =>
           samples_admissible(spi,
               linspace(range_r(spi)[1], range_r(spi)[2], range_ipol), "r")
    /\ pc = "index" =>
           samples_admissible(spi,
               linspace(range_n(spi)[1], range_n(spi)[2], range_ipol), "n")
    /\ pc \in {"center", "offset"} =>
           ~bad_query(spi, spi.sphere_index, spi.radius)

C29_Witness ==
    /\ pc = "index"
    /\ ii = 3
    /\ 4 * spi.dn = dn0
    /\ 4 * spi.dr = dr0
    /\ spi.radius # r0
    /\ spi.ncalls > 9


\* the forward-model evaluations and the get_phase calls of iteration k
evaluations(k) == hist[k].ncalls - (IF k = 1 THEN 0 ELSE hist[k - 1].ncalls)
phase_calls(k) == hist[k].nphase - (IF k = 1 THEN 0 ELSE hist[k - 1].nphase)

\* the border slots on the two axes through the center, as array indices
AxisSlots == {<<1, 1>>, <<0, 1>>, <<2, 1>>, <<1, 0>>, <<1, 2>>}

\* C30: one iteration of match_phase evaluates the forward model at most 9
\* times although it calls get_phase more than 260 times (47 radius, 47
\* index, 169 lateral probes and the phase-offset probe); only the five
\* border slots (0,0), (-1,0), (1,0), (0,-1), (0,1) are ever computed, the
\* four corner slots are never accessed.
C30_FewEvaluations ==
    /\ \A k \in DOMAIN hist :
           /\ evaluations(k) <= 9
           /\ phase_calls(k) > 260
           /\ phase_calls(k) = 2 * range_ipol + range_off * range_off
                                 + (IF cfg.fix_pha_offset THEN 0 ELSE 1)
    /\ DOMAIN spi.border_pha \subseteq AxisSlots
    /\ \A k \in Slots \ AxisSlots :
           spi.n_border[k] = 0 /\ spi.r_border[k] = 0

C30_Witness ==
    /\ Len(hist) = 2
    /\ evaluations(1) = 9
    /\ evaluations(2) < 9
    /\ phase_calls(2) = 264
    /\ DOMAIN spi.border_pha = AxisSlots

====
